---------------------------- MODULE Spec2Model ----------------------------
(***************************************************************************)
(* La Arboleda Club: menu loader (menu-loader.js), category filters        *)
(* (menu-filters.js), view toggle and modal (menu-views.js, modal.js).     *)
(*                                                                         *)
(* JavaScript values are modelled as records of one shape, so that any two *)
(* of them can be compared:                                                *)
(*   t  the type tag: "undef" "null" "bool" "num" "str" "arr" "obj" "fun"  *)
(*   n  the number (t = "num") or 1/0 for true/false (t = "bool")          *)
(*   s  the string (t = "str")                                             *)
(*   e  the own enumerable properties in order, each [k, v]: the members   *)
(*      of an object, or the elements of an array under keys "0", "1", ... *)
(* A text (what localStorage holds, what the server sends) is a sequence   *)
(* of JSON tokens [c, s, n].                                               *)
(***************************************************************************)
EXTENDS Integers, Sequences, FiniteSets, TLC

---------------------------------------------------------------------------
(* JavaScript values *)

JUndef == [t |-> "undef", n |-> 0, s |-> "", e |-> <<>>]

JNull == [t |-> "null", n |-> 0, s |-> "", e |-> <<>>]

JNum(n) == [t |-> "num", n |-> n, s |-> "", e |-> <<>>]

JStr(s) == [t |-> "str", n |-> 0, s |-> s, e |-> <<>>]

JBool(b) == [t |-> "bool", n |-> IF b THEN 1 ELSE 0, s |-> "", e |-> <<>>]

JFun == [t |-> "fun", n |-> 1, s |-> "", e |-> <<>>]

Prop(k, v) == [k |-> k, v |-> v]

JObj(members) == [t |-> "obj", n |-> 0, s |-> "", e |-> members]

JArr(items) ==
  [t |-> "arr", n |-> 0, s |-> "",
   e |-> [i \in 1..Len(items) |-> Prop(ToString(i - 1), items[i])]]

(* !v *)
Falsy(v) ==
  \/ v.t \in {"undef", "null"}
  \/ v.t = "bool" /\ v.n = 0
  \/ v.t = "num" /\ v.n = 0
  \/ v.t = "str" /\ v.s = ""

(* typeof v *)
TypeOf(v) ==
  CASE v.t = "undef" -> "undefined"
    [] v.t = "bool" -> "boolean"
    [] v.t = "num" -> "number"
    [] v.t = "str" -> "string"
    [] v.t = "fun" -> "function"
    [] OTHER -> "object"

(* Object.keys(v) *)
ObjectKeys(v) == [i \in 1..Len(v.e) |-> v.e[i].k]

HasOwn(v, k) == \E i \in 1..Len(v.e) : v.e[i].k = k

(* The names every object inherits from Object.prototype. *)
ObjectPrototypeKeys ==
  {"constructor", "toString", "valueOf", "hasOwnProperty", "toLocaleString"}

(* v[k] for an object or an array: the own property, else the inherited one. *)
Get(v, k) ==
  IF HasOwn(v, k)
  THEN v.e[CHOOSE i \in 1..Len(v.e) : v.e[i].k = k].v
  ELSE IF k \in ObjectPrototypeKeys THEN JFun
  ELSE JUndef

(* `${v}` for the values a dish field can hold *)
TemplateString(v) ==
  CASE v.t = "str" -> v.s
    [] v.t = "num" -> ToString(v.n)
    [] v.t = "null" -> "null"
    [] v.t = "bool" -> (IF v.n = 1 THEN "true" ELSE "false")
    [] v.t = "undef" -> "undefined"
    [] OTHER -> "[object]"

---------------------------------------------------------------------------
(* JSON texts *)

Tok(c) == [c |-> c, s |-> "", n |-> 0]

TokStr(s) == [c |-> "str", s |-> s, n |-> 0]

TokNum(n) == [c |-> "num", s |-> "", n |-> n]

RECURSIVE JSONstringify(_)
RECURSIVE StringifyItems(_, _)
RECURSIVE StringifyMembers(_, _, _)

(* The elements of an array from index i on: undefined and functions become *)
(* null. *)
StringifyItems(e, i) ==
  IF i > Len(e) THEN <<>>
  ELSE (IF i > 1 THEN <<Tok(",")>> ELSE <<>>)
       \o (IF e[i].v.t \in {"undef", "fun"} THEN <<Tok("null")>>
           ELSE JSONstringify(e[i].v))
       \o StringifyItems(e, i + 1)

(* The members of an object from index i on: a member whose value is *)
(* undefined or a function is left out. *)
StringifyMembers(e, i, first) ==
  IF i > Len(e) THEN <<>>
  ELSE IF e[i].v.t \in {"undef", "fun"} THEN StringifyMembers(e, i + 1, first)
  ELSE (IF first THEN <<>> ELSE <<Tok(",")>>)
       \o <<TokStr(e[i].k), Tok(":")>> \o JSONstringify(e[i].v)
       \o StringifyMembers(e, i + 1, FALSE)

(* JSON.stringify(v), for v other than undefined *)
JSONstringify(v) ==
  CASE v.t = "null" -> <<Tok("null")>>
    [] v.t = "bool" -> <<Tok(IF v.n = 1 THEN "true" ELSE "false")>>
    [] v.t = "num" -> <<TokNum(v.n)>>
    [] v.t = "str" -> <<TokStr(v.s)>>
    [] v.t = "arr" -> <<Tok("[")>> \o StringifyItems(v.e, 1) \o <<Tok("]")>>
    [] OTHER -> <<Tok("{")>> \o StringifyMembers(v.e, 1, TRUE) \o <<Tok("}")>>

ParseFail == [ok |-> FALSE, v |-> JUndef, next |-> 0]

ParseOk(v, next) == [ok |-> TRUE, v |-> v, next |-> next]

(* Defining property k of an object under construction: a repeated key *)
(* keeps its place and takes the later value. *)
SetMember(members, k, v) ==
  IF \E i \in 1..Len(members) : members[i].k = k
  THEN [i \in 1..Len(members) |->
          IF members[i].k = k THEN Prop(k, v) ELSE members[i]]
  ELSE Append(members, Prop(k, v))

RECURSIVE ParseValue(_, _)
RECURSIVE ParseItems(_, _, _)
RECURSIVE ParseMembers(_, _, _)

(* After "[" or ",": a value, then "," or "]". *)
ParseItems(text, i, acc) ==
  LET r == ParseValue(text, i) IN
  IF ~r.ok \/ r.next > Len(text) THEN ParseFail
  ELSE IF text[r.next].c = "]" THEN ParseOk(JArr(Append(acc, r.v)), r.next + 1)
  ELSE IF text[r.next].c = "," THEN ParseItems(text, r.next + 1, Append(acc, r.v))
  ELSE ParseFail

(* After "{" or ",": a string, ":", a value, then "," or "}". *)
ParseMembers(text, i, acc) ==
  IF i + 1 > Len(text) \/ text[i].c # "str" \/ text[i + 1].c # ":" THEN ParseFail
  ELSE LET r == ParseValue(text, i + 2)
           members == SetMember(acc, text[i].s, r.v) IN
       IF ~r.ok \/ r.next > Len(text) THEN ParseFail
       ELSE IF text[r.next].c = "}" THEN ParseOk(JObj(members), r.next + 1)
       ELSE IF text[r.next].c = "," THEN ParseMembers(text, r.next + 1, members)
       ELSE ParseFail

ParseValue(text, i) ==
  IF i > Len(text) THEN ParseFail
  ELSE CASE text[i].c = "null" -> ParseOk(JNull, i + 1)
         [] text[i].c = "true" -> ParseOk(JBool(TRUE), i + 1)
         [] text[i].c = "false" -> ParseOk(JBool(FALSE), i + 1)
         [] text[i].c = "num" -> ParseOk(JNum(text[i].n), i + 1)
         [] text[i].c = "str" -> ParseOk(JStr(text[i].s), i + 1)
         [] text[i].c = "[" ->
              IF i + 1 <= Len(text) /\ text[i + 1].c = "]"
              THEN ParseOk(JArr(<<>>), i + 2)
              ELSE ParseItems(text, i + 1, <<>>)
         [] text[i].c = "{" ->
              IF i + 1 <= Len(text) /\ text[i + 1].c = "}"
              THEN ParseOk(JObj(<<>>), i + 2)
              ELSE ParseMembers(text, i + 1, <<>>)
         [] OTHER -> ParseFail

(* JSON.parse(text): ok = FALSE stands for the SyntaxError. *)
JSONparse(text) ==
  LET r == ParseValue(text, 1) IN
  IF r.ok /\ r.next = Len(text) + 1 THEN [ok |-> TRUE, v |-> r.v]
  ELSE [ok |-> FALSE, v |-> JUndef]

---------------------------------------------------------------------------
(* Catalogs and dishes *)

Causa ==
  JObj(<<Prop("nombre", JStr("Causa")), Prop("descripcion", JStr("Papa amarilla")),
         Prop("precio", JNum(12)), Prop("imagen", JStr("causa.jpg"))>>)

Flan ==
  JObj(<<Prop("nombre", JStr("Flan")), Prop("descripcion", JStr("Con caramelo")),
         Prop("precio", JStr("8.50")), Prop("imagen", JStr("flan.jpg"))>>)

DishPool == {Causa, Flan}

CategoryNames == {"entradas", "postres"}

(* The most dishes a catalog of the model holds, over all its categories. *)
MaxDishes == 2

DishLists == UNION {[1..n -> DishPool] : n \in 0..MaxDishes}

(* The well-formed catalogs: a mapping, in insertion order, from distinct *)
(* category names to lists of dishes. *)
Catalogs ==
  {JObj(<<>>)}
  \cup {JObj(<<Prop(c, JArr(l))>>) : c \in CategoryNames, l \in DishLists}
  \cup {JObj(<<Prop(c, JArr(l)), Prop(d, JArr(m))>>) :
          <<c, d, l, m>> \in
            {q \in CategoryNames \X CategoryNames \X DishLists \X DishLists :
               q[1] # q[2] /\ Len(q[3]) + Len(q[4]) <= MaxDishes}}

(* The catalog of the specification's scenario, and one more. *)
CatalogCausa ==
  JObj(<<Prop("entradas", JArr(<<Causa>>)), Prop("postres", JArr(<<>>))>>)

CatalogPostres ==
  JObj(<<Prop("postres", JArr(<<Flan, Causa>>)), Prop("entradas", JArr(<<Causa>>))>>)

---------------------------------------------------------------------------
VARIABLES
  storage,      \* localStorage[CONFIG.cacheKey]: [present, text]
  storageMode,  \* "ok", "quota" (setItem throws) or "disabled" (every access throws)
  now,          \* Date.now()
  last,         \* the last call of the cache store: what it was given, what it
                \* found in storage and what it returned
  catalog,      \* the catalog the caller of the cache store or the renderer holds
  page,         \* the ids of the elements the document holds
  MenuState,    \* [data, activeCategory, activeView, isLoading, error]
  DOM,          \* the ids DOM.init() found: DOM.<id> is non-null
  calls,        \* the invocations of initMenuLoader, each with its loadMenuData
  loadingState, \* #loadingState: [hidden]
  errorState,   \* #errorState: [hidden]
  menuGrid,     \* #menuGrid: [display, content]
  menuSimple,   \* #menuSimple: [display, content]
  menuFilters,  \* the .filter-btn buttons of the document, in order
  filtersListening, \* initFilters has attached the click and keypress listeners
  scrolledTo,   \* the element the last window.scrollTo aimed at
  filterAnnouncer,  \* #filter-announcer's text ("": not created yet)
  ViewsDOM,     \* the ids ViewsDOM.init() found
  toggleDetailed,   \* #toggleDetailed: [active, pressed]
  toggleSimple,     \* #toggleSimple: [active, pressed]
  gridClass,    \* the classes of #menuGrid that the views toggle
  simpleClass,  \* the classes of #menuSimple that the views toggle
  viewAnnouncer,    \* #view-announcer's text ("": not created yet)
  ModalDOM,     \* the ids ModalDOM.init() found
  modalState,   \* [isOpen, lastFocusedElement, focusableElements]
  menuModal,    \* #menuModal: [display, ariaHidden, opacity]
  modalSlots,   \* the dish shown: [image, alt, title, description, price]
  bodyOverflow, \* document.body.style.overflow
  activeElement,    \* document.activeElement, "body" when nothing is focused
  staleFocus,   \* modalState.lastFocusedElement is a node no longer in the document
  modalListening,   \* initModalListeners has attached its listeners
  timers,       \* the pending setTimeout and requestAnimationFrame callbacks
  wait,         \* the wait of the debounced function, in ticks
  debounceTimeout,  \* the debounced function's timeout: [pending, remaining, args]
  sinceCall,    \* ticks since the debounced function was last called
  funcCalls,    \* the invocations of the wrapped function: [count, args]
  limit,        \* the limit of the throttled function, in ticks
  inThrottle,   \* the throttled function's flag (undefined is falsy)
  throttleTimer,    \* the pending setTimeout of the throttle: [pending, remaining]
  sinceInvoked, \* ticks since the throttle last invoked the wrapped function
  invocations   \* the throttle's invocations of it: [count, args, threw]

cacheVars == <<storage, storageMode, now>>

stateVars == <<MenuState, DOM, calls>>

uiVars ==
  <<loadingState, errorState, menuGrid, menuSimple, menuFilters,
    filtersListening, scrolledTo, filterAnnouncer>>

viewVars ==
  <<ViewsDOM, toggleDetailed, toggleSimple, gridClass, simpleClass, viewAnnouncer>>

modalVars ==
  <<ModalDOM, modalState, menuModal, modalSlots, bodyOverflow, activeElement,
    staleFocus, modalListening>>

throttleVars == <<limit, inThrottle, throttleTimer, sinceInvoked, invocations>>

utilVars == <<wait, debounceTimeout, sinceCall, funcCalls, throttleVars>>

(* What a render of the grid never touches. *)
restVars ==
  <<viewVars, ModalDOM, modalState, menuModal, modalSlots, bodyOverflow,
    modalListening, timers, utilVars>>

(* What the loader, the filters and the cache store never touch. *)
extVars == <<viewVars, modalVars, timers, utilVars>>

vars ==
  <<storage, storageMode, now, last, catalog, page, stateVars, uiVars, extVars>>

(* The elements the scripts look up by id. *)
Elements ==
  {"menuGrid", "menuSimple", "menuFilters", "loadingState", "errorState"}

---------------------------------------------------------------------------
(* CONFIG *)

cacheExpiry == 1000 * 60 * 60 * 24

---------------------------------------------------------------------------
(* Cache store *)

NoItem == [present |-> FALSE, text |-> <<>>]

Item(text) == [present |-> TRUE, text |-> text]

(* No call of a public operation has been made since the clock moved. *)
NoCall ==
  [op |-> "none", arg |-> JUndef, ret |-> JUndef, threw |-> FALSE,
   before |-> NoItem, prevSave |-> FALSE, prevArg |-> JUndef]

(* saveToCache with the timestamp taken in seconds. *)
saveToCacheInSeconds(data, st, mode, t) ==
  LET cacheData == JObj(<<Prop("data", data), Prop("timestamp", JNum(t \div 1000))>>) IN
  [storage |-> IF mode = "ok" THEN Item(JSONstringify(cacheData)) ELSE st,
   threw |-> FALSE]

(* saveToCache(data): [storage, threw], the storage afterwards and whether *)
(* it threw. A setItem that throws (storage full or disabled) is caught *)
(* and logged. *)
saveToCache(data, st, mode, t) ==
  LET cacheData == JObj(<<Prop("data", data), Prop("timestamp", JNum(t))>>) IN
  [storage |-> IF mode = "ok" THEN Item(JSONstringify(cacheData)) ELSE st,
   threw |-> FALSE]

(* v.k for any value but null and undefined *)
Member(v, k) == IF v.t \in {"obj", "arr"} THEN Get(v, k) ELSE JUndef

(* Expired with >= for >. *)
ExpiredAtLimit(ts, t) ==
  CASE ts.t = "num" -> t - ts.n >= cacheExpiry
    [] OTHER -> FALSE

(* Date.now() - ts > CONFIG.cacheExpiry, with ts converted to a number: *)
(* a comparison with NaN is false. *)
Expired(ts, t) ==
  CASE ts.t = "num" -> t - ts.n > cacheExpiry
    [] ts.t = "bool" -> t - ts.n > cacheExpiry
    [] ts.t = "null" -> t > cacheExpiry
    [] ts.t = "str" /\ ts.s = "" -> t > cacheExpiry
    [] ts.t = "arr" /\ ts.e = <<>> -> t > cacheExpiry
    [] OTHER -> FALSE

(* getFromCache(): [ret, storage], the value returned and the storage *)
(* afterwards. Every exception is caught and answered with null. *)
getFromCache(st, mode, t) ==
  IF mode = "disabled" THEN [ret |-> JNull, storage |-> st]
  ELSE IF ~st.present \/ st.text = <<>> THEN [ret |-> JNull, storage |-> st]
  ELSE LET p == JSONparse(st.text) IN
       IF ~p.ok \/ p.v.t = "null" THEN [ret |-> JNull, storage |-> st]
       ELSE IF Expired(Member(p.v, "timestamp"), t)
       THEN [ret |-> JNull, storage |-> NoItem]
       ELSE [ret |-> Member(p.v, "data"), storage |-> st]

---------------------------------------------------------------------------
(* Rendering *)

(* capitalizeFirst(str), for the names of the model; a string that starts *)
(* with a digit is left as it is. *)
capitalizeFirst(str) ==
  CASE str = "entradas" -> "Entradas"
    [] str = "postres" -> "Postres"
    [] str = "bebidas" -> "Bebidas"
    [] str = "constructor" -> "Constructor"
    [] OTHER -> str

createFilterButton(category, label, isActive) ==
  [category |-> category, label |-> label, active |-> isActive,
   pressed |-> IF isActive THEN "true" ELSE "false"]

(* renderFilters(data): the buttons of the document afterwards. *)
renderFilters(D, buttons, data) ==
  IF "menuFilters" \notin D THEN buttons
  ELSE LET categories == ObjectKeys(data) IN
       <<createFilterButton("all", "Todos", TRUE)>>
       \o [i \in 1..Len(categories) |->
             createFilterButton(categories[i], capitalizeFirst(categories[i]), FALSE)]

(* createMenuCard(plato, index): the card, with the dish its handlers open. *)
createMenuCard(plato) ==
  [title |-> TemplateString(Member(plato, "nombre")),
   price |-> "S/ " \o TemplateString(Member(plato, "precio")),
   image |-> TemplateString(Member(plato, "imagen")),
   plato |-> plato]

EmptyContent == [placeholder |-> FALSE, nodes |-> <<>>]

PlaceholderContent == [placeholder |-> TRUE, nodes |-> <<>>]

RECURSIVE DetailedCards(_, _, _)

(* data[cat].forEach(plato => ...) over the dishes from index j on, after *)
(* the cards acc: reading plato.nombre of null throws. *)
DetailedCards(items, j, acc) ==
  IF j > Len(items) THEN [threw |-> FALSE, nodes |-> acc]
  ELSE IF items[j].v.t \in {"null", "undef"} THEN [threw |-> TRUE, nodes |-> acc]
  ELSE DetailedCards(items, j + 1, Append(acc, createMenuCard(items[j].v)))

RECURSIVE DetailedCategories(_, _, _, _)

(* categories.forEach(cat => ...) from index i on: a category whose value *)
(* is falsy is skipped, and one whose value has no forEach throws. *)
DetailedCategories(data, categories, i, acc) ==
  IF i > Len(categories) THEN [threw |-> FALSE, nodes |-> acc]
  ELSE LET v == Get(data, categories[i]) IN
       IF Falsy(v) THEN DetailedCategories(data, categories, i + 1, acc)
       ELSE IF v.t # "arr" THEN [threw |-> TRUE, nodes |-> acc]
       ELSE LET r == DetailedCards(v.e, 1, acc) IN
            IF r.threw THEN r
            ELSE DetailedCategories(data, categories, i + 1, r.nodes)

(* renderDetailedView that does not empty the grid first. *)
renderDetailedViewAppending(D, grid, data, category) ==
  IF "menuGrid" \notin D THEN [threw |-> FALSE, el |-> grid]
  ELSE LET categories == IF category = "all" THEN ObjectKeys(data) ELSE <<category>>
           r == DetailedCategories(data, categories, 1, grid.content.nodes) IN
       [threw |-> r.threw,
        el |-> [grid EXCEPT !.content =
                  IF ~r.threw /\ r.nodes = <<>> THEN PlaceholderContent
                  ELSE [placeholder |-> FALSE, nodes |-> r.nodes]]]

(* renderDetailedView(data, category): [threw, el], whether it threw and *)
(* #menuGrid afterwards. *)
renderDetailedView(D, grid, data, category) ==
  IF "menuGrid" \notin D THEN [threw |-> FALSE, el |-> grid]
  ELSE LET categories == IF category = "all" THEN ObjectKeys(data) ELSE <<category>>
           r == DetailedCategories(data, categories, 1, <<>>) IN
       [threw |-> r.threw,
        el |-> [grid EXCEPT !.content =
                  IF ~r.threw /\ r.nodes = <<>> THEN PlaceholderContent
                  ELSE [placeholder |-> FALSE, nodes |-> r.nodes]]]

RECURSIVE SimpleItems(_, _, _)

SimpleItems(items, j, acc) ==
  IF j > Len(items) THEN [threw |-> FALSE, items |-> acc]
  ELSE IF items[j].v.t \in {"null", "undef"} THEN [threw |-> TRUE, items |-> acc]
  ELSE SimpleItems(items, j + 1,
         Append(acc, [title |-> TemplateString(Member(items[j].v, "nombre")),
                      price |-> "S/ " \o TemplateString(Member(items[j].v, "precio"))]))

RECURSIVE SimpleCategories(_, _, _, _)

(* A category whose value is falsy or has length 0 is skipped; the heading *)
(* is mounted before the dishes are read. *)
SimpleCategories(data, categories, i, acc) ==
  IF i > Len(categories) THEN [threw |-> FALSE, nodes |-> acc]
  ELSE LET v == Get(data, categories[i])
           title == [tag |-> "h3", text |-> capitalizeFirst(categories[i]),
                     items |-> <<>>] IN
       IF Falsy(v) \/ (v.t = "arr" /\ v.e = <<>>)
       THEN SimpleCategories(data, categories, i + 1, acc)
       ELSE IF v.t # "arr" THEN [threw |-> TRUE, nodes |-> Append(acc, title)]
       ELSE LET r == SimpleItems(v.e, 1, <<>>) IN
            IF r.threw THEN [threw |-> TRUE, nodes |-> Append(acc, title)]
            ELSE SimpleCategories(data, categories, i + 1,
                   acc \o <<title, [tag |-> "ul", text |-> "", items |-> r.items]>>)

(* renderSimpleView(data, category): [threw, el], whether it threw and *)
(* #menuSimple afterwards. *)
renderSimpleView(D, simple, data, category) ==
  IF "menuSimple" \notin D THEN [threw |-> FALSE, el |-> simple]
  ELSE LET categories == IF category = "all" THEN ObjectKeys(data) ELSE <<category>>
           r == SimpleCategories(data, categories, 1, <<>>) IN
       [threw |-> r.threw,
        el |-> [simple EXCEPT !.content =
                  IF ~r.threw /\ (categories = <<>> \/ r.nodes = <<>>)
                  THEN PlaceholderContent
                  ELSE [placeholder |-> FALSE, nodes |-> r.nodes]]]

---------------------------------------------------------------------------
(* The focus and the cards *)

(* The j-th card of the grid, as an element that can hold the focus. *)
Card(j) == "card" \o ToString(j)

IsCard(el) == \E j \in 1..(MaxDishes + 1) : el = Card(j)

(* A render of the grid replaces its cards (innerHTML = ''): a card that *)
(* held the focus loses it, and a card the modal remembers is no longer in *)
(* the document. *)
CardsReplaced(rendered) ==
  /\ activeElement' = IF rendered /\ IsCard(activeElement) THEN "body"
                      ELSE activeElement
  /\ staleFocus' = (staleFocus \/ (rendered /\ IsCard(modalState.lastFocusedElement)))

---------------------------------------------------------------------------
(* Loading *)

(* The invocations of initMenuLoader that may be under way at once. *)
MaxLoads == 2

(* What the server can answer to GET data/menu.json: a rejected fetch, or *)
(* a status and a body. *)
Rejected == [kind |-> "reject", status |-> 0, body |-> <<>>]

Http(status, body) == [kind |-> "http", status |-> status, body |-> body]

Responses ==
  { Rejected,
    Http(500, <<>>),
    Http(200, JSONstringify(CatalogCausa)),
    Http(200, JSONstringify(CatalogPostres)),
    Http(200, <<Tok("null")>>),
    Http(200, <<TokNum(5)>>),
    Http(200, <<Tok("["), Tok("]")>>),
    Http(200, <<Tok("["), TokNum(5), Tok("]")>>),
    Http(200, <<Tok("{"), TokStr("entradas")>>) }

(* response.ok *)
ResponseOk(resp) == resp.status >= 200 /\ resp.status <= 299

(* The check of lines 126-128: data is truthy and typeof data is 'object'. *)
ValidStructure(data) == ~Falsy(data) /\ TypeOf(data) = "object"

LoadFailed(message) == [ok |-> FALSE, data |-> JUndef, message |-> message]

(* What the try block of loadMenuData makes of a settled fetch: the data, *)
(* or the message of the error thrown. *)
FetchOutcome(resp) ==
  IF resp.kind = "reject" THEN LoadFailed("Failed to fetch")
  ELSE IF ~ResponseOk(resp)
  THEN LoadFailed("HTTP error! status: " \o ToString(resp.status))
  ELSE LET p == JSONparse(resp.body) IN
       IF ~p.ok THEN LoadFailed("Unexpected end of JSON input")
       ELSE IF ~ValidStructure(p.v) THEN LoadFailed("Formato de datos invalido")
       ELSE [ok |-> TRUE, data |-> p.v, message |-> ""]

(* No continuation of an await is queued: a handler or a timer may run. *)
Idle == \A i \in 1..Len(calls) : calls[i].pc = "fetching"

(* The invocations but the i-th, which has ended. *)
Remove(seq, i) == [j \in 1..(Len(seq) - 1) |-> IF j < i THEN seq[j] ELSE seq[j + 1]]

Call(pc, via, ret, resp, fetches) ==
  [pc |-> pc, via |-> via, ret |-> ret, resp |-> resp, fetches |-> fetches]

(* showLoading() *)
ShowLoading(D) ==
  /\ loadingState' = IF "loadingState" \in D THEN [hidden |-> FALSE] ELSE loadingState
  /\ errorState' = IF "errorState" \in D THEN [hidden |-> TRUE] ELSE errorState
  /\ menuGrid' = IF "menuGrid" \in D THEN [menuGrid EXCEPT !.display = "none"]
                 ELSE menuGrid
  /\ menuSimple' = IF "menuSimple" \in D THEN [menuSimple EXCEPT !.display = "none"]
                   ELSE menuSimple

(* showError() without the hiding of the two containers. *)
ShowErrorOverContent(D) ==
  /\ loadingState' = IF "loadingState" \in D THEN [hidden |-> TRUE] ELSE loadingState
  /\ errorState' = IF "errorState" \in D THEN [hidden |-> FALSE] ELSE errorState
  /\ UNCHANGED <<menuGrid, menuSimple>>

(* showError() *)
ShowError(D) ==
  /\ loadingState' = IF "loadingState" \in D THEN [hidden |-> TRUE] ELSE loadingState
  /\ errorState' = IF "errorState" \in D THEN [hidden |-> FALSE] ELSE errorState
  /\ menuGrid' = IF "menuGrid" \in D THEN [menuGrid EXCEPT !.display = "none"]
                 ELSE menuGrid
  /\ menuSimple' = IF "menuSimple" \in D THEN [menuSimple EXCEPT !.display = "none"]
                   ELSE menuSimple

(* Lines 110-111 with the loading flag left set. *)
AdoptCachedStillLoading(state, cachedData) == [state EXCEPT !.data = cachedData]

(* Lines 110-111: the cached catalog becomes the state's data. *)
AdoptCached(state, cachedData) ==
  [state EXCEPT !.data = cachedData, !.isLoading = FALSE]

(* Lines 132-134 without the reset of the error. *)
AdoptFetchedKeepsError(state, data) ==
  [state EXCEPT !.data = data, !.isLoading = FALSE]

(* Lines 132-134: the fetched catalog becomes the state's data. *)
AdoptFetched(state, data) ==
  [state EXCEPT !.data = data, !.isLoading = FALSE, !.error = JNull]

(* Lines 141-142 with the data dropped as well. *)
RecordErrorDropsData(state, message) ==
  [state EXCEPT !.isLoading = FALSE, !.error = JStr(message), !.data = JNull]

(* Lines 141-142: the catch block records the message. *)
RecordError(state, message) ==
  [state EXCEPT !.isLoading = FALSE, !.error = JStr(message)]

(* initMenuLoader() up to its await: DOM.init(), then loadMenuData() up to *)
(* its return on a cache hit or up to its fetch. *)
InitMenuLoader ==
  /\ Idle
  /\ Len(calls) < MaxLoads
  /\ DOM' = page \cap Elements
  /\ ShowLoading(DOM')
  /\ LET r == getFromCache(storage, storageMode, now) IN
       /\ storage' = r.storage
       /\ IF ~Falsy(r.ret)
          THEN /\ MenuState' = AdoptCached([MenuState EXCEPT !.isLoading = TRUE], r.ret)
               /\ calls' = Append(calls, Call("returned", "cache", r.ret, Rejected, 0))
          ELSE /\ MenuState' = [MenuState EXCEPT !.isLoading = TRUE]
               /\ calls' = Append(calls, Call("fetching", "network", JUndef, Rejected, 1))
  /\ last' = NoCall
  /\ UNCHANGED <<storageMode, now, catalog, page, menuFilters,
                 filtersListening, scrolledTo, filterAnnouncer>>
  /\ UNCHANGED extVars

(* loadMenuData() that fetches a second time when the first attempt fails. *)
FetchSettlesRetrying(i, resp) ==
  /\ Idle
  /\ calls[i].pc = "fetching"
  /\ LET o == FetchOutcome(resp)
         w == saveToCache(o.data, storage, storageMode, now) IN
       IF o.ok /\ ~w.threw
       THEN /\ storage' = w.storage
            /\ MenuState' = AdoptFetched(MenuState, o.data)
            /\ calls' = [calls EXCEPT ![i] = Call("returned", "network", o.data, resp,
                                                    calls[i].fetches)]
            /\ UNCHANGED <<loadingState, errorState, menuGrid, menuSimple>>
       ELSE IF calls[i].fetches < 2
       THEN /\ calls' = [calls EXCEPT ![i] = Call("fetching", "network", JUndef, Rejected,
                                                    calls[i].fetches + 1)]
            /\ UNCHANGED <<storage, MenuState, loadingState, errorState, menuGrid,
                           menuSimple>>
       ELSE /\ storage' = IF o.ok THEN w.storage ELSE storage
            /\ MenuState' = RecordError(MenuState,
                               IF o.ok THEN "QuotaExceededError" ELSE o.message)
            /\ ShowError(DOM)
            /\ calls' = [calls EXCEPT ![i] = Call("threw", "network", JUndef, resp,
                                                    calls[i].fetches)]
  /\ UNCHANGED <<storageMode, now, last, catalog, page, DOM, menuFilters,
                 filtersListening, scrolledTo, filterAnnouncer>>
  /\ UNCHANGED extVars

(* loadMenuData() from the settling of its fetch to its return or throw. *)
FetchSettles(i, resp) ==
  /\ Idle
  /\ calls[i].pc = "fetching"
  /\ LET o == FetchOutcome(resp)
         w == saveToCache(o.data, storage, storageMode, now) IN
       IF o.ok /\ ~w.threw
       THEN /\ storage' = w.storage
            /\ MenuState' = AdoptFetched(MenuState, o.data)
            /\ calls' = [calls EXCEPT ![i] = Call("returned", "network", o.data, resp, 1)]
            /\ UNCHANGED <<loadingState, errorState, menuGrid, menuSimple>>
       ELSE /\ storage' = IF o.ok THEN w.storage ELSE storage
            /\ MenuState' = RecordError(MenuState,
                               IF o.ok THEN "QuotaExceededError" ELSE o.message)
            /\ ShowError(DOM)
            /\ calls' = [calls EXCEPT ![i] = Call("threw", "network", JUndef, resp, 1)]
  /\ UNCHANGED <<storageMode, now, last, catalog, page, DOM, menuFilters,
                 filtersListening, scrolledTo, filterAnnouncer>>
  /\ UNCHANGED extVars

(* The record of an invocation of initMenuLoader that has ended: what its *)
(* loadMenuData returned (undefined when it threw), its fetches, and *)
(* whether other invocations were still waiting for their fetch. *)
Ended(call, others) ==
  [NoCall EXCEPT !.op = "init", !.ret = call.ret, !.arg = JNum(call.fetches),
                 !.prevSave = (others > 0)]

(* hideLoading(), on the grid and the simple container as rendered *)
HideLoading(D, grid, simple) ==
  /\ loadingState' = IF "loadingState" \in D THEN [hidden |-> TRUE] ELSE loadingState
  /\ menuGrid' = IF MenuState.activeView = "detailed" /\ "menuGrid" \in D
                 THEN [grid EXCEPT !.display = "grid"] ELSE grid
  /\ menuSimple' = IF ~(MenuState.activeView = "detailed" /\ "menuGrid" \in D)
                      /\ MenuState.activeView = "simple" /\ "menuSimple" \in D
                   THEN [simple EXCEPT !.display = "block"] ELSE simple

(* initMenuLoader() after loadMenuData() returned: the filters, the *)
(* detailed view, hideLoading(); an exception of the rendering is caught *)
(* and logged, and hideLoading() is then never reached. *)
InitMenuLoaderRenders(i) ==
  /\ calls[i].pc = "returned"
  /\ menuFilters' = renderFilters(DOM, menuFilters, calls[i].ret)
  /\ LET r == renderDetailedView(DOM, menuGrid, calls[i].ret, MenuState.activeCategory) IN
       IF r.threw
       THEN menuGrid' = r.el /\ UNCHANGED <<loadingState, menuSimple>>
       ELSE HideLoading(DOM, r.el, menuSimple)
  /\ calls' = Remove(calls, i)
  /\ last' = Ended(calls[i], Len(calls) - 1)
  /\ CardsReplaced("menuGrid" \in DOM)
  /\ UNCHANGED <<cacheVars, catalog, page, MenuState, DOM, errorState,
                 filtersListening, scrolledTo, filterAnnouncer>>
  /\ UNCHANGED restVars

(* initMenuLoader() after loadMenuData() threw: the error is logged. *)
InitMenuLoaderCatches(i) ==
  /\ calls[i].pc = "threw"
  /\ calls' = Remove(calls, i)
  /\ last' = Ended(calls[i], Len(calls) - 1)
  /\ UNCHANGED <<cacheVars, catalog, page, MenuState, DOM, uiVars>>
  /\ UNCHANGED extVars

---------------------------------------------------------------------------
(* Filters *)

(* initFilters() *)
InitFilters ==
  /\ Idle
  /\ "menuFilters" \in page
  /\ ~filtersListening
  /\ filtersListening' = TRUE
  /\ UNCHANGED <<cacheVars, last, catalog, page, stateVars, loadingState, errorState,
                 menuGrid, menuSimple, menuFilters, scrolledTo, filterAnnouncer>>
  /\ UNCHANGED extVars

(* updateFilterButtons(activeCategory): the buttons afterwards *)
updateFilterButtons(buttons, activeCategory) ==
  [i \in 1..Len(buttons) |->
     LET isActive == buttons[i].category = activeCategory IN
     [buttons[i] EXCEPT !.active = isActive,
                        !.pressed = IF isActive THEN "true" ELSE "false"]]

(* scrollToMenu(): the element scrolled to, none when the target is missing *)
scrollToMenu(grid, before) ==
  IF "menuGrid" \in page
  THEN IF grid.display # "none" THEN "menuGrid"
       ELSE IF "menuSimple" \in page THEN "menuSimple" ELSE before
  ELSE before

(* announceFilterChange(category): the announcer's text *)
announceFilterChange(category) ==
  IF category = "all" THEN "Mostrando todos los platos"
  ELSE "Mostrando " \o category

(* applyFilter(category) that renders the category without recording it *)
(* in the state. *)
applyFilterUnrecorded(category) ==
  /\ MenuState' = MenuState
  /\ menuFilters' = updateFilterButtons(menuFilters, category)
  /\ LET rendersDetailed == ~Falsy(MenuState.data) /\ MenuState.activeView = "detailed"
         rendersSimple == ~Falsy(MenuState.data) /\ MenuState.activeView # "detailed"
         d == IF rendersDetailed
              THEN renderDetailedView(DOM, menuGrid, MenuState.data, category)
              ELSE [threw |-> FALSE, el |-> menuGrid]
         s == IF rendersSimple
              THEN renderSimpleView(DOM, menuSimple, MenuState.data, category)
              ELSE [threw |-> FALSE, el |-> menuSimple]
         threw == d.threw \/ s.threw IN
       /\ menuGrid' = d.el
       /\ menuSimple' = s.el
       /\ scrolledTo' = IF threw THEN scrolledTo ELSE scrollToMenu(d.el, scrolledTo)
       /\ filterAnnouncer' = IF threw THEN filterAnnouncer
                             ELSE announceFilterChange(category)
       /\ last' = [NoCall EXCEPT !.op = "applyFilter", !.arg = JStr(category),
                                 !.threw = threw]
       /\ CardsReplaced(rendersDetailed /\ "menuGrid" \in DOM)
  /\ UNCHANGED <<cacheVars, catalog, page, DOM, calls, loadingState, errorState,
                 filtersListening>>
  /\ UNCHANGED restVars

(* applyFilter(category). An exception of the renderer leaves the handler *)
(* before scrollToMenu() and announceFilterChange(). *)
applyFilter(category) ==
  /\ MenuState' = [MenuState EXCEPT !.activeCategory = category]
  /\ menuFilters' = updateFilterButtons(menuFilters, category)
  /\ LET rendersDetailed == ~Falsy(MenuState.data) /\ MenuState.activeView = "detailed"
         rendersSimple == ~Falsy(MenuState.data) /\ MenuState.activeView # "detailed"
         d == IF rendersDetailed
              THEN renderDetailedView(DOM, menuGrid, MenuState.data, category)
              ELSE [threw |-> FALSE, el |-> menuGrid]
         s == IF rendersSimple
              THEN renderSimpleView(DOM, menuSimple, MenuState.data, category)
              ELSE [threw |-> FALSE, el |-> menuSimple]
         threw == d.threw \/ s.threw IN
       /\ menuGrid' = d.el
       /\ menuSimple' = s.el
       /\ scrolledTo' = IF threw THEN scrolledTo ELSE scrollToMenu(d.el, scrolledTo)
       /\ filterAnnouncer' = IF threw THEN filterAnnouncer
                             ELSE announceFilterChange(category)
       /\ last' = [NoCall EXCEPT !.op = "applyFilter", !.arg = JStr(category),
                                 !.threw = threw]
       /\ CardsReplaced(rendersDetailed /\ "menuGrid" \in DOM)
  /\ UNCHANGED <<cacheVars, catalog, page, DOM, calls, loadingState, errorState,
                 filtersListening>>
  /\ UNCHANGED restVars

(* The categories a caller of MenuFilters.apply may pass. *)
FilterInputs == {"all", "postres", "bebidas", "constructor"}

(* MenuFilters.apply(category) *)
ApplyFilter(category) ==
  /\ Idle
  /\ applyFilter(category)

(* MenuFilters.reset() *)
ResetFilters ==
  /\ Idle
  /\ applyFilter("all")

(* getActiveCategory(): the category of the first button marked active, *)
(* "all" when there is none *)
getActiveCategory(buttons) ==
  LET active == SelectSeq(buttons, LAMBDA b : b.active) IN
  IF active = <<>> THEN "all" ELSE active[1].category

(* MenuFilters.getActive() *)
GetActive ==
  /\ Idle
  /\ last' = [NoCall EXCEPT !.op = "getActive",
                            !.ret = JStr(getActiveCategory(menuFilters))]
  /\ UNCHANGED <<cacheVars, catalog, page, stateVars, uiVars, extVars>>

(* handleFilterClick(event), for a click on the i-th button *)
HandleFilterClick(i) ==
  /\ Idle
  /\ filtersListening
  /\ applyFilter(menuFilters[i].category)

(* handleFilterKeypress(event), for a key pressed on the i-th button *)
HandleFilterKeypress(i, key) ==
  /\ Idle
  /\ filtersListening
  /\ key \in {"Enter", " "}
  /\ applyFilter(menuFilters[i].category)

---------------------------------------------------------------------------
(* Timers *)

(* The most callbacks pending at once. *)
MaxTimers == 3

(* A pending callback: what it runs and the ms until it is due; a *)
(* requestAnimationFrame callback is due at once. *)
Timer(kind, remaining) == [kind |-> kind, remaining |-> remaining]

(* Time passes without any callback becoming overdue. *)
Advance(d) ==
  /\ Idle
  /\ timers # <<>>
  /\ \A i \in 1..Len(timers) : timers[i].remaining >= d
  /\ timers' = [i \in 1..Len(timers) |->
                  [timers[i] EXCEPT !.remaining = timers[i].remaining - d]]
  /\ UNCHANGED <<cacheVars, last, catalog, page, stateVars, uiVars, viewVars,
                 modalVars, utilVars>>

(* The i-th callback is due, and none registered before it for the same *)
(* moment is still waiting. *)
Due(i) ==
  /\ Idle
  /\ timers[i].remaining = 0
  /\ \A j \in 1..(i - 1) : timers[j].kind # timers[i].kind \/ timers[j].remaining > 0

---------------------------------------------------------------------------
(* Views *)

ViewElements == {"toggleDetailed", "toggleSimple"}

(* updateViewButtons(activeView): the two toggle buttons afterwards *)
updateViewButtons(V, activeView) ==
  IF ~({"toggleDetailed", "toggleSimple"} \subseteq V)
  THEN [detailed |-> toggleDetailed, simple |-> toggleSimple]
  ELSE LET isDetailed == activeView = "detailed" IN
       [detailed |-> [active |-> isDetailed,
                      pressed |-> IF isDetailed THEN "true" ELSE "false"],
        simple |-> [active |-> ~isDetailed,
                    pressed |-> IF isDetailed THEN "false" ELSE "true"]]

(* announceViewChange(viewName): the announcer's text *)
announceViewChange(viewName) == "Vista cambiada a " \o viewName

(* initViews() *)
InitViews ==
  /\ Idle
  /\ ViewsDOM' = page \cap (ViewElements \cup {"menuGrid", "menuSimple"})
  /\ LET b == updateViewButtons(ViewsDOM', "detailed") IN
       /\ toggleDetailed' = b.detailed
       /\ toggleSimple' = b.simple
  /\ last' = [NoCall EXCEPT !.op = "initViews"]
  /\ UNCHANGED <<cacheVars, catalog, page, stateVars, uiVars, gridClass, simpleClass,
                 viewAnnouncer, modalVars, timers, utilVars>>

(* The delay of the cross-fade to the detailed view, in ms. *)
viewDelay == 400

(* switchToDetailedView(), up to its setTimeout *)
switchToDetailedView ==
  IF ~({"menuGrid", "menuSimple"} \subseteq ViewsDOM)
  THEN UNCHANGED <<MenuState, viewVars, timers>>
  ELSE /\ MenuState' = [MenuState EXCEPT !.activeView = "detailed"]
       /\ LET b == updateViewButtons(ViewsDOM, "detailed") IN
            /\ toggleDetailed' = b.detailed
            /\ toggleSimple' = b.simple
       /\ simpleClass' = simpleClass \ {"active"}
       /\ timers' = Append(timers, Timer("viewDetailed", viewDelay))
       /\ viewAnnouncer' = announceViewChange("detallada")
       /\ UNCHANGED <<ViewsDOM, gridClass>>

(* MenuViews.switchToDetailed(), or a click on #toggleDetailed *)
SwitchToDetailedView ==
  /\ Idle
  /\ Len(timers) < MaxTimers
  /\ switchToDetailedView
  /\ last' = [NoCall EXCEPT !.op = "switchToDetailed",
                            !.prevSave = (last.op = "switchToDetailed")]
  /\ UNCHANGED <<cacheVars, catalog, page, DOM, calls, uiVars, modalVars, utilVars>>

(* The callback of switchToDetailedView's setTimeout; an exception of the *)
(* renderer ends the callback. *)
ShowDetailedView(i) ==
  /\ Due(i)
  /\ timers[i].kind = "viewDetailed"
  /\ timers' = Remove(timers, i)
  /\ menuSimple' = [menuSimple EXCEPT !.display = "none"]
  /\ simpleClass' = simpleClass \cup {"hidden"}
  /\ gridClass' = gridClass \ {"hidden"}
  /\ LET shown == [menuGrid EXCEPT !.display = "grid"]
         r == IF Falsy(MenuState.data) THEN [threw |-> FALSE, el |-> shown]
              ELSE renderDetailedView(DOM, shown, MenuState.data,
                                      MenuState.activeCategory) IN
       /\ menuGrid' = r.el
       /\ CardsReplaced(~Falsy(MenuState.data) /\ "menuGrid" \in DOM)
  /\ UNCHANGED <<cacheVars, last, catalog, page, stateVars, loadingState, errorState,
                 menuFilters, filtersListening, scrolledTo, filterAnnouncer,
                 ViewsDOM, toggleDetailed, toggleSimple, viewAnnouncer,
                 ModalDOM, modalState, menuModal, modalSlots, bodyOverflow,
                 modalListening, utilVars>>

(* switchToSimpleView(), up to its requestAnimationFrame *)
switchToSimpleView ==
  IF ~({"menuGrid", "menuSimple"} \subseteq ViewsDOM)
  THEN [threw |-> FALSE, done |-> FALSE, el |-> menuSimple]
  ELSE LET shown == [menuSimple EXCEPT !.display = "block"]
           r == IF Falsy(MenuState.data) THEN [threw |-> FALSE, el |-> shown]
                ELSE renderSimpleView(DOM, shown, MenuState.data,
                                      MenuState.activeCategory) IN
       [threw |-> r.threw, done |-> TRUE, el |-> r.el]

(* MenuViews.switchToSimple(), or a click on #toggleSimple. An exception *)
(* of the renderer leaves the handler before its requestAnimationFrame. *)
SwitchToSimpleView ==
  /\ Idle
  /\ Len(timers) < MaxTimers
  /\ LET r == switchToSimpleView IN
       /\ menuSimple' = r.el
       /\ last' = [NoCall EXCEPT !.op = "switchToSimple", !.threw = r.threw]
       /\ IF ~r.done
          THEN UNCHANGED <<MenuState, menuGrid, viewVars, timers>>
          ELSE /\ MenuState' = [MenuState EXCEPT !.activeView = "simple"]
               /\ LET b == updateViewButtons(ViewsDOM, "simple") IN
                    /\ toggleDetailed' = b.detailed
                    /\ toggleSimple' = b.simple
               /\ menuGrid' = [menuGrid EXCEPT !.display = "none"]
               /\ gridClass' = gridClass \cup {"hidden"}
               /\ simpleClass' = simpleClass \ {"hidden"}
               /\ timers' = IF r.threw THEN timers
                            ELSE Append(timers, Timer("simpleActive", 0))
               /\ viewAnnouncer' = IF r.threw THEN viewAnnouncer
                                   ELSE announceViewChange("simple")
               /\ UNCHANGED ViewsDOM
       /\ activeElement' = IF r.done /\ IsCard(activeElement) THEN "body"
                           ELSE activeElement
  /\ UNCHANGED <<cacheVars, catalog, page, DOM, calls, loadingState, errorState,
                 menuFilters, filtersListening, scrolledTo, filterAnnouncer,
                 ModalDOM, modalState, menuModal, modalSlots, bodyOverflow,
                 staleFocus, modalListening, utilVars>>

(* The callback of switchToSimpleView's requestAnimationFrame *)
ActivateSimpleView(i) ==
  /\ Due(i)
  /\ timers[i].kind = "simpleActive"
  /\ timers' = Remove(timers, i)
  /\ simpleClass' = simpleClass \cup {"active"}
  /\ UNCHANGED <<cacheVars, last, catalog, page, stateVars, uiVars, ViewsDOM,
                 toggleDetailed, toggleSimple, gridClass, viewAnnouncer,
                 modalVars, utilVars>>

---------------------------------------------------------------------------
(* Modal *)

(* #menuModal, its overlay, its close button, the four slots of the dish, *)
(* and "modalAction" for one more focusable element inside the dialog. *)
ModalElements ==
  {"menuModal", "modalOverlay", "modalClose", "modalImage", "modalTitle",
   "modalDescription", "modalPrice", "modalAction"}

AllElements == Elements \cup ViewElements \cup ModalElements

(* ModalDOM.init(): the overlay is looked up inside the modal. *)
ModalDOMinit(p) ==
  (p \cap {"menuModal", "modalClose", "modalImage", "modalTitle",
           "modalDescription", "modalPrice"})
  \cup (IF {"menuModal", "modalOverlay"} \subseteq p THEN {"modalOverlay"} ELSE {})

(* initModal() *)
InitModal ==
  /\ Idle
  /\ ~modalListening
  /\ ModalDOM' = ModalDOMinit(page)
  /\ modalListening' = ("menuModal" \in ModalDOM')
  /\ last' = [NoCall EXCEPT !.op = "initModal"]
  /\ UNCHANGED <<cacheVars, catalog, page, stateVars, uiVars, viewVars, modalState,
                 menuModal, modalSlots, bodyOverflow, activeElement, staleFocus,
                 timers, utilVars>>

(* The elements the Tab key stops at, in document order: the view *)
(* toggles, the cards of a displayed grid, and what a displayed modal *)
(* holds. *)
ModalFocusables(p) ==
  SelectSeq(<<"modalClose", "modalAction">>,
            LAMBDA el : {"menuModal", el} \subseteq p)

PageFocusables(p, grid) ==
  SelectSeq(<<"toggleDetailed", "toggleSimple">>, LAMBDA el : el \in p)
  \o (IF "menuGrid" \in p /\ grid.display # "none"
      THEN [j \in 1..Len(grid.content.nodes) |-> Card(j)] ELSE <<>>)

TabOrder(p, grid, modal) ==
  PageFocusables(p, grid)
  \o (IF modal.display # "none" THEN ModalFocusables(p) ELSE <<>>)

InSeq(el, seq) == \E i \in 1..Len(seq) : seq[i] = el

(* el.focus(): the focused element afterwards. Nothing happens for an *)
(* element that is not rendered, not in the document or not focusable. *)
Focus(el, current, stale, p, grid, modal) ==
  IF InSeq(el, TabOrder(p, grid, modal)) /\ ~(stale /\ IsCard(el))
  THEN el ELSE current

(* The focus fixup of the document: an element that stops being rendered *)
(* loses the focus to the body. *)
FocusFixup(current, p, grid, modal) ==
  IF InSeq(current, TabOrder(p, grid, modal)) THEN current ELSE "body"

(* The delays of the modal, in ms. *)
focusDelay == 100

closeDelay == 300

(* setupFocusTrap(): every focusable element inside the modal *)
setupFocusTrap(p) == ModalFocusables(p)

(* openMenuModal(plato) without the update of the open flag. *)
openMenuModalUnflagged(plato, focused) ==
  IF "menuModal" \notin ModalDOM
  THEN UNCHANGED <<modalState, menuModal, modalSlots, bodyOverflow, staleFocus, timers>>
  ELSE /\ modalSlots' =
            [image |-> IF "modalImage" \in ModalDOM
                       THEN TemplateString(Member(plato, "imagen")) ELSE modalSlots.image,
             alt |-> IF "modalImage" \in ModalDOM
                     THEN TemplateString(Member(plato, "nombre")) ELSE modalSlots.alt,
             title |-> IF "modalTitle" \in ModalDOM
                       THEN TemplateString(Member(plato, "nombre")) ELSE modalSlots.title,
             description |-> IF "modalDescription" \in ModalDOM
                             THEN TemplateString(Member(plato, "descripcion"))
                             ELSE modalSlots.description,
             price |-> IF "modalPrice" \in ModalDOM
                       THEN "S/ " \o TemplateString(Member(plato, "precio"))
                       ELSE modalSlots.price]
       /\ menuModal' = [menuModal EXCEPT !.display = "flex", !.ariaHidden = "false"]
       /\ bodyOverflow' = "hidden"
       /\ modalState' = [isOpen |-> modalState.isOpen,
                         lastFocusedElement |-> focused,
                         focusableElements |-> setupFocusTrap(page)]
       /\ staleFocus' = FALSE
       /\ timers' = timers \o <<Timer("modalOpacity", 0), Timer("modalFocus", focusDelay)>>

(* openMenuModal(plato), up to its timers, with document.activeElement *)
(* as it is when the function is entered *)
openMenuModal(plato, focused) ==
  IF "menuModal" \notin ModalDOM
  THEN UNCHANGED <<modalState, menuModal, modalSlots, bodyOverflow, staleFocus, timers>>
  ELSE /\ modalSlots' =
            [image |-> IF "modalImage" \in ModalDOM
                       THEN TemplateString(Member(plato, "imagen")) ELSE modalSlots.image,
             alt |-> IF "modalImage" \in ModalDOM
                     THEN TemplateString(Member(plato, "nombre")) ELSE modalSlots.alt,
             title |-> IF "modalTitle" \in ModalDOM
                       THEN TemplateString(Member(plato, "nombre")) ELSE modalSlots.title,
             description |-> IF "modalDescription" \in ModalDOM
                             THEN TemplateString(Member(plato, "descripcion"))
                             ELSE modalSlots.description,
             price |-> IF "modalPrice" \in ModalDOM
                       THEN "S/ " \o TemplateString(Member(plato, "precio"))
                       ELSE modalSlots.price]
       /\ menuModal' = [menuModal EXCEPT !.display = "flex", !.ariaHidden = "false"]
       /\ bodyOverflow' = "hidden"
       /\ modalState' = [isOpen |-> TRUE,
                         lastFocusedElement |-> focused,
                         focusableElements |-> setupFocusTrap(page)]
       /\ staleFocus' = FALSE
       /\ timers' = timers \o <<Timer("modalOpacity", 0), Timer("modalFocus", focusDelay)>>

(* Modal.open(plato) *)
OpenMenuModal(plato) ==
  /\ Idle
  /\ Len(timers) + 2 <= MaxTimers
  /\ openMenuModal(plato, activeElement)
  /\ last' = [NoCall EXCEPT !.op = "open"]
  /\ UNCHANGED <<cacheVars, catalog, page, stateVars, uiVars, viewVars, ModalDOM,
                 activeElement, modalListening, utilVars>>

(* Modal.open() without a dish: the focused element is recorded (line *)
(* 256), and the first slot that is filled reads a property of undefined *)
(* and throws, before the modal is touched. *)
OpenWithoutDish ==
  /\ Idle
  /\ Len(timers) + 2 <= MaxTimers
  /\ IF "menuModal" \in ModalDOM
        /\ ModalDOM \cap {"modalImage", "modalTitle", "modalDescription", "modalPrice"} # {}
     THEN /\ modalState' = [modalState EXCEPT !.lastFocusedElement = activeElement]
          /\ staleFocus' = FALSE
          /\ last' = [NoCall EXCEPT !.op = "open", !.threw = TRUE]
          /\ UNCHANGED <<menuModal, modalSlots, bodyOverflow, timers>>
     ELSE /\ openMenuModal(JUndef, activeElement)
          /\ last' = [NoCall EXCEPT !.op = "open"]
  /\ UNCHANGED <<cacheVars, catalog, page, stateVars, uiVars, viewVars, ModalDOM,
                 activeElement, modalListening, utilVars>>

(* A click on the j-th card: the card takes the focus and its listener *)
(* opens its dish. The overlay of a displayed modal covers the cards. *)
CardClick(j) ==
  /\ Idle
  /\ Len(timers) + 2 <= MaxTimers
  /\ menuModal.display = "none"
  /\ InSeq(Card(j), PageFocusables(page, menuGrid))
  /\ activeElement' = Card(j)
  /\ openMenuModal(menuGrid.content.nodes[j].plato, Card(j))
  /\ last' = [NoCall EXCEPT !.op = "open"]
  /\ UNCHANGED <<cacheVars, catalog, page, stateVars, uiVars, viewVars, ModalDOM,
                 modalListening, utilVars>>

(* Enter or the space bar pressed on the focused card *)
CardKeypress(j, key) ==
  /\ Idle
  /\ Len(timers) + 2 <= MaxTimers
  /\ key \in {"Enter", " "}
  /\ activeElement = Card(j)
  /\ InSeq(Card(j), PageFocusables(page, menuGrid))
  /\ openMenuModal(menuGrid.content.nodes[j].plato, Card(j))
  /\ last' = [NoCall EXCEPT !.op = "open"]
  /\ UNCHANGED <<cacheVars, catalog, page, stateVars, uiVars, viewVars, ModalDOM,
                 activeElement, modalListening, utilVars>>

(* closeMenuModal(), up to its setTimeout *)
closeMenuModal ==
  IF "menuModal" \notin ModalDOM \/ ~modalState.isOpen
  THEN UNCHANGED <<menuModal, timers>>
  ELSE /\ menuModal' = [menuModal EXCEPT !.opacity = "0"]
       /\ timers' = Append(timers, Timer("modalClose", closeDelay))

(* Modal.close() *)
CloseMenuModal ==
  /\ Idle
  /\ Len(timers) < MaxTimers
  /\ closeMenuModal
  /\ last' = [NoCall EXCEPT !.op = "close"]
  /\ UNCHANGED <<cacheVars, catalog, page, stateVars, uiVars, viewVars, ModalDOM,
                 modalState, modalSlots, bodyOverflow, activeElement, staleFocus,
                 modalListening, utilVars>>

(* A click on the close button of a displayed modal, which takes the focus *)
CloseButtonClick ==
  /\ Idle
  /\ Len(timers) < MaxTimers
  /\ modalListening
  /\ InSeq("modalClose", TabOrder(page, menuGrid, menuModal))
  /\ "modalClose" \in ModalDOM
  /\ activeElement' = "modalClose"
  /\ closeMenuModal
  /\ last' = [NoCall EXCEPT !.op = "close"]
  /\ UNCHANGED <<cacheVars, catalog, page, stateVars, uiVars, viewVars, ModalDOM,
                 modalState, modalSlots, bodyOverflow, staleFocus, modalListening,
                 utilVars>>

(* A click on the overlay of a displayed modal: nothing there takes the *)
(* focus, which goes to the body. *)
OverlayClick ==
  /\ Idle
  /\ Len(timers) < MaxTimers
  /\ modalListening
  /\ menuModal.display # "none"
  /\ "modalOverlay" \in ModalDOM
  /\ activeElement' = "body"
  /\ closeMenuModal
  /\ last' = [NoCall EXCEPT !.op = "close"]
  /\ UNCHANGED <<cacheVars, catalog, page, stateVars, uiVars, viewVars, ModalDOM,
                 modalState, modalSlots, bodyOverflow, staleFocus, modalListening,
                 utilVars>>

(* The keydown listener for Escape *)
EscapeKey ==
  /\ Idle
  /\ Len(timers) < MaxTimers
  /\ modalListening
  /\ modalState.isOpen
  /\ closeMenuModal
  /\ last' = [NoCall EXCEPT !.op = "close"]
  /\ UNCHANGED <<cacheVars, catalog, page, stateVars, uiVars, viewVars, ModalDOM,
                 modalState, modalSlots, bodyOverflow, activeElement, staleFocus,
                 modalListening, utilVars>>

(* The callback of openMenuModal's requestAnimationFrame *)
ShowModal(i) ==
  /\ Due(i)
  /\ timers[i].kind = "modalOpacity"
  /\ timers' = Remove(timers, i)
  /\ menuModal' = [menuModal EXCEPT !.opacity = "1"]
  /\ UNCHANGED <<cacheVars, last, catalog, page, stateVars, uiVars, viewVars, ModalDOM,
                 modalState, modalSlots, bodyOverflow, activeElement, staleFocus,
                 modalListening, utilVars>>

(* The callback of openMenuModal's setTimeout: ModalDOM.closeBtn?.focus() *)
FocusCloseButton(i) ==
  /\ Due(i)
  /\ timers[i].kind = "modalFocus"
  /\ timers' = Remove(timers, i)
  /\ activeElement' = IF "modalClose" \in ModalDOM
                      THEN Focus("modalClose", activeElement, FALSE, page, menuGrid,
                                 menuModal)
                      ELSE activeElement
  /\ UNCHANGED <<cacheVars, last, catalog, page, stateVars, uiVars, viewVars, ModalDOM,
                 modalState, menuModal, modalSlots, bodyOverflow, staleFocus,
                 modalListening, utilVars>>

(* The callback of closeMenuModal that leaves the body's overflow as it is. *)
HideModalKeepsScroll(i) ==
  /\ Due(i)
  /\ timers[i].kind = "modalClose"
  /\ timers' = Remove(timers, i)
  /\ menuModal' = [menuModal EXCEPT !.display = "none", !.ariaHidden = "true"]
  /\ LET left == FocusFixup(activeElement, page, menuGrid, menuModal') IN
       activeElement' =
         IF modalState.lastFocusedElement # "null"
         THEN Focus(modalState.lastFocusedElement, left, staleFocus, page, menuGrid,
                    menuModal')
         ELSE left
  /\ modalState' = [modalState EXCEPT !.isOpen = FALSE]
  /\ UNCHANGED <<cacheVars, last, catalog, page, stateVars, uiVars, viewVars, ModalDOM,
                 modalSlots, bodyOverflow, staleFocus, modalListening, utilVars>>

(* The callback of closeMenuModal's setTimeout *)
HideModal(i) ==
  /\ Due(i)
  /\ timers[i].kind = "modalClose"
  /\ timers' = Remove(timers, i)
  /\ menuModal' = [menuModal EXCEPT !.display = "none", !.ariaHidden = "true"]
  /\ bodyOverflow' = ""
  /\ LET left == FocusFixup(activeElement, page, menuGrid, menuModal') IN
       activeElement' =
         IF modalState.lastFocusedElement # "null"
         THEN Focus(modalState.lastFocusedElement, left, staleFocus, page, menuGrid,
                    menuModal')
         ELSE left
  /\ modalState' = [modalState EXCEPT !.isOpen = FALSE]
  /\ UNCHANGED <<cacheVars, last, catalog, page, stateVars, uiVars, viewVars, ModalDOM,
                 modalSlots, staleFocus, modalListening, utilVars>>

(* The stop of the tab order the browser moves the focus to: the next *)
(* one, or the previous one with Shift, around the ends of the order. *)
Neighbour(order, current, shiftKey) ==
  IF order = <<>> THEN "body"
  ELSE IF ~InSeq(current, order)
  THEN (IF shiftKey THEN order[Len(order)] ELSE order[1])
  ELSE LET i == CHOOSE k \in 1..Len(order) : order[k] = current IN
       IF shiftKey THEN order[IF i = 1 THEN Len(order) ELSE i - 1]
       ELSE order[IF i = Len(order) THEN 1 ELSE i + 1]

(* handleModalTab that never prevents the default action of the key. *)
handleModalTabDefault(shiftKey) ==
  Neighbour(TabOrder(page, menuGrid, menuModal), activeElement, shiftKey)

(* handleModalTab(event) for the Tab key: the focused element afterwards. *)
(* With an empty focusable set both firstElement and lastElement are *)
(* undefined, which document.activeElement never is. When the handler *)
(* does not prevent it, the browser moves the focus itself. *)
handleModalTab(shiftKey) ==
  LET f == modalState.focusableElements
      order == TabOrder(page, menuGrid, menuModal)
      trapped == modalListening /\ modalState.isOpen /\ f # <<>> IN
  IF trapped /\ shiftKey /\ activeElement = f[1]
  THEN Focus(f[Len(f)], activeElement, FALSE, page, menuGrid, menuModal)
  ELSE IF trapped /\ ~shiftKey /\ activeElement = f[Len(f)]
  THEN Focus(f[1], activeElement, FALSE, page, menuGrid, menuModal)
  ELSE Neighbour(order, activeElement, shiftKey)

(* The Tab key is pressed, with or without Shift. *)
TabKey(shiftKey) ==
  /\ Idle
  /\ activeElement' = handleModalTab(shiftKey)
  /\ last' = [NoCall EXCEPT !.op = "tab", !.arg = JBool(shiftKey),
                            !.ret = JStr(activeElement)]
  /\ UNCHANGED <<cacheVars, catalog, page, stateVars, uiVars, viewVars, ModalDOM,
                 modalState, menuModal, modalSlots, bodyOverflow, staleFocus,
                 modalListening, timers, utilVars>>

(* A click inside the dialog on something that takes no focus. *)
ModalContentClick ==
  /\ Idle
  /\ menuModal.display # "none"
  /\ activeElement # "body"
  /\ activeElement' = "body"
  /\ UNCHANGED <<cacheVars, last, catalog, page, stateVars, uiVars, viewVars, ModalDOM,
                 modalState, menuModal, modalSlots, bodyOverflow, staleFocus,
                 modalListening, timers, utilVars>>

---------------------------------------------------------------------------
(* debounce (utils.js) *)

(* The waits, in ms, and the invocations of the wrapped function that the *)
(* debounced function is followed for. *)
MaxWait == 3

MaxInvocations == 2

NoTimeout == [pending |-> FALSE, remaining |-> 0, args |-> 0]

(* executedFunction(...args) with the first call's timeout left running. *)
executedFunctionKeepsFirst(timeout, w, args) ==
  IF timeout.pending THEN timeout
  ELSE [pending |-> TRUE, remaining |-> w, args |-> args]

(* executedFunction(...args): clearTimeout(timeout), then timeout = *)
(* setTimeout(later, wait) with later closing over these args. *)
executedFunction(timeout, w, args) ==
  [pending |-> TRUE, remaining |-> w, args |-> args]

(* The debounced function is called, as on a scroll event. *)
Debounced(args) ==
  /\ funcCalls.count < MaxInvocations
  /\ debounceTimeout' = executedFunction(debounceTimeout, wait, args)
  /\ sinceCall' = 0
  /\ last' = [NoCall EXCEPT !.op = "debounced", !.arg = JNum(args),
                            !.prevSave = (last.op = "debounced"),
                            !.prevArg = last.arg]
  /\ UNCHANGED <<cacheVars, catalog, page, stateVars, uiVars, viewVars, modalVars,
                 timers, wait, funcCalls, throttleVars>>

(* later(): the timeout is due; clearTimeout(timeout), then func(...args). *)
Later ==
  /\ debounceTimeout.pending
  /\ debounceTimeout.remaining = 0
  /\ debounceTimeout' = NoTimeout
  /\ funcCalls' = [count |-> funcCalls.count + 1, args |-> debounceTimeout.args]
  /\ last' = [last EXCEPT !.op = "func"]
  /\ UNCHANGED <<cacheVars, catalog, page, stateVars, uiVars, viewVars, modalVars,
                 timers, wait, sinceCall, throttleVars>>

(* One ms passes; no timeout is left overdue. *)
DebounceTick ==
  /\ ~(debounceTimeout.pending /\ debounceTimeout.remaining = 0)
  /\ debounceTimeout.pending \/ sinceCall <= wait
  /\ debounceTimeout' =
       IF debounceTimeout.pending
       THEN [debounceTimeout EXCEPT !.remaining = debounceTimeout.remaining - 1]
       ELSE debounceTimeout
  /\ sinceCall' = sinceCall + 1
  /\ UNCHANGED <<cacheVars, last, catalog, page, stateVars, uiVars, viewVars,
                 modalVars, timers, wait, funcCalls, throttleVars>>

---------------------------------------------------------------------------
(* throttle (utils.js) *)

NoThrottleTimer == [pending |-> FALSE, remaining |-> 0]

(* executedFunction(...args) of throttle: [invoked, inThrottle, timer]. *)
(* With the flag unset the wrapped function is invoked; when it returns *)
(* the flag is set and setTimeout(() => inThrottle = false, limit) is *)
(* called; when it throws, the exception leaves the function before *)
(* either. With the flag set nothing happens. *)
throttledFunction(flag, timer, l, throws) ==
  IF ~flag
  THEN IF throws THEN [invoked |-> TRUE, inThrottle |-> flag, timer |-> timer]
       ELSE [invoked |-> TRUE, inThrottle |-> TRUE,
             timer |-> [pending |-> TRUE, remaining |-> l]]
  ELSE [invoked |-> FALSE, inThrottle |-> flag, timer |-> timer]

(* The throttled function is called; the wrapped function, when invoked, *)
(* returns or throws. The call is recorded with whether it invoked the *)
(* wrapped function, whether an invocation came before, and the ms since. *)
Throttled(args, throws) ==
  /\ invocations.count < MaxInvocations
  /\ LET r == throttledFunction(inThrottle, throttleTimer, limit, throws) IN
       /\ inThrottle' = r.inThrottle
       /\ throttleTimer' = r.timer
       /\ invocations' = IF r.invoked
                         THEN [count |-> invocations.count + 1, args |-> args,
                               threw |-> throws]
                         ELSE invocations
       /\ sinceInvoked' = IF r.invoked THEN 0 ELSE sinceInvoked
       /\ last' = [NoCall EXCEPT !.op = "throttled", !.arg = JNum(args),
                                 !.ret = JBool(r.invoked),
                                 !.threw = (r.invoked /\ throws),
                                 !.prevSave = (invocations.count > 0),
                                 !.prevArg = JNum(sinceInvoked)]
  /\ UNCHANGED <<cacheVars, catalog, page, stateVars, uiVars, viewVars, modalVars,
                 timers, wait, debounceTimeout, sinceCall, funcCalls, limit>>

(* () => inThrottle = false: the timeout is due. *)
ThrottleReset ==
  /\ throttleTimer.pending
  /\ throttleTimer.remaining = 0
  /\ inThrottle' = FALSE
  /\ throttleTimer' = NoThrottleTimer
  /\ last' = [last EXCEPT !.op = "reset"]
  /\ UNCHANGED <<cacheVars, catalog, page, stateVars, uiVars, viewVars, modalVars,
                 timers, wait, debounceTimeout, sinceCall, funcCalls, limit,
                 sinceInvoked, invocations>>

(* One ms passes; no timeout is left overdue. *)
ThrottleTick ==
  /\ ~(throttleTimer.pending /\ throttleTimer.remaining = 0)
  /\ throttleTimer.pending \/ sinceInvoked <= limit
  /\ throttleTimer' =
       IF throttleTimer.pending
       THEN [throttleTimer EXCEPT !.remaining = throttleTimer.remaining - 1]
       ELSE throttleTimer
  /\ sinceInvoked' = sinceInvoked + 1
  /\ UNCHANGED <<cacheVars, last, catalog, page, stateVars, uiVars, viewVars,
                 modalVars, timers, wait, debounceTimeout, sinceCall, funcCalls,
                 limit, inThrottle, invocations>>

---------------------------------------------------------------------------
(* The cache store on its own: saveToCache and getFromCache called in any *)
(* order, on any catalog, as the clock advances. *)

(* The clock when the page is loaded, in ms since the epoch. *)
StartTime == 1700000000

(* The clock advances by 1 ms or by cacheExpiry, up to MaxDays * cacheExpiry *)
(* + MaxMillis after StartTime. *)
MaxDays == 1

MaxMillis == 1

StorageModes == {"ok", "quota", "disabled"}

Entry(data, ts) ==
  Item(JSONstringify(JObj(<<Prop("data", data), Prop("timestamp", JNum(ts))>>)))

(* What a page can find under the key when it starts: nothing, an entry of *)
(* an earlier visit, or a text that is no entry. *)
InitialItems ==
  { NoItem,
    Entry(CatalogCausa, StartTime - cacheExpiry),
    Item(JSONstringify(JObj(<<Prop("data", CatalogCausa)>>))),
    Item(<<Tok("{"), TokStr("data"), Tok(":")>>),
    Item(<<Tok("null")>>),
    Item(<<>>) }

(* No throttled function has been called. *)
InitThrottle(l) ==
  /\ limit = l
  /\ inThrottle = FALSE
  /\ throttleTimer = NoThrottleTimer
  /\ sinceInvoked = 0
  /\ invocations = [count |-> 0, args |-> 0, threw |-> FALSE]

(* No debounced function has been called. *)
InitUtil ==
  /\ wait = 1
  /\ debounceTimeout = [pending |-> FALSE, remaining |-> 0, args |-> 0]
  /\ sinceCall = 0
  /\ funcCalls = [count |-> 0, args |-> 0]
  /\ InitThrottle(1)

(* The view toggle and the modal before anything has run: the markup *)
(* hides the modal, and nothing holds the focus. *)
InitRest ==
  /\ ViewsDOM = {}
  /\ toggleDetailed = [active |-> TRUE, pressed |-> "true"]
  /\ toggleSimple = [active |-> FALSE, pressed |-> "false"]
  /\ gridClass = {}
  /\ simpleClass = {"hidden"}
  /\ viewAnnouncer = ""
  /\ ModalDOM = {}
  /\ modalState = [isOpen |-> FALSE, lastFocusedElement |-> "null",
                   focusableElements |-> <<>>]
  /\ menuModal = [display |-> "none", ariaHidden |-> "true", opacity |-> "0"]
  /\ modalSlots = [image |-> "", alt |-> "", title |-> "", description |-> "",
                   price |-> ""]
  /\ bodyOverflow = ""
  /\ activeElement = "body"
  /\ staleFocus = FALSE
  /\ modalListening = FALSE
  /\ timers = <<>>

(* Nothing has run and nothing is rendered; the markup may show or hide *)
(* the error panel. *)
InitScripts ==
  /\ MenuState = [data |-> JNull, activeCategory |-> "all", activeView |-> "detailed",
                  isLoading |-> FALSE, error |-> JNull]
  /\ DOM = {}
  /\ calls = <<>>
  /\ loadingState = [hidden |-> FALSE]
  /\ errorState \in {[hidden |-> h] : h \in BOOLEAN}
  /\ menuGrid = [display |-> "", content |-> EmptyContent]
  /\ menuSimple = [display |-> "", content |-> EmptyContent]
  /\ menuFilters = <<>>
  /\ filtersListening = FALSE
  /\ scrolledTo = ""
  /\ filterAnnouncer = ""
  /\ InitRest

InitPage ==
  /\ page = Elements
  /\ InitScripts
  /\ InitUtil

InitStore ==
  /\ storageMode \in StorageModes
  /\ storage \in IF storageMode = "disabled" THEN {NoItem} ELSE InitialItems
  /\ now = StartTime

InitCache ==
  /\ InitStore
  /\ InitPage
  /\ errorState.hidden
  /\ last = NoCall
  /\ catalog \in Catalogs

SaveToCacheCall ==
  LET w == saveToCache(catalog, storage, storageMode, now) IN
  /\ storage' = w.storage
  /\ last' = [NoCall EXCEPT !.op = "save", !.arg = catalog, !.threw = w.threw]
  /\ UNCHANGED <<storageMode, now, catalog, page, stateVars, uiVars>>
  /\ UNCHANGED extVars

GetFromCacheCall ==
  LET r == getFromCache(storage, storageMode, now) IN
  /\ storage' = r.storage
  /\ last' = [NoCall EXCEPT !.op = "get", !.ret = r.ret, !.before = storage,
                            !.prevSave = (last.op = "save"), !.prevArg = last.arg]
  /\ UNCHANGED <<storageMode, now, catalog, page, stateVars, uiVars>>
  /\ UNCHANGED extVars

Tick(d) ==
  /\ (now + d - StartTime) \div cacheExpiry <= MaxDays
  /\ (now + d - StartTime) % cacheExpiry <= MaxMillis
  /\ now' = now + d
  /\ last' = NoCall
  /\ UNCHANGED <<storage, storageMode, catalog, page, stateVars, uiVars>>
  /\ UNCHANGED extVars

NextCache ==
  \/ SaveToCacheCall
  \/ GetFromCacheCall
  \/ \E d \in {1, cacheExpiry} : Tick(d)

SpecCache == InitCache /\ [][NextCache]_vars

---------------------------------------------------------------------------
(* The menu page: loads, filters and the clock *)

(* What the menu page finds under the key when it starts. *)
PageItems ==
  { NoItem,
    Entry(CatalogCausa, StartTime - cacheExpiry),
    Item(<<Tok("{"), TokStr("data"), Tok(":")>>) }

Init ==
  /\ InitStore
  /\ storage \in PageItems
  /\ InitPage
  /\ last = NoCall
  /\ catalog = JUndef

ClockTick ==
  /\ Idle
  /\ Tick(cacheExpiry)

(* The loader alone: initMenuLoader under every answer of the server and *)
(* every state of the storage. *)
NextLoad ==
  \/ InitMenuLoader
  \/ \E i \in 1..Len(calls), resp \in Responses : FetchSettles(i, resp)
  \/ \E i \in 1..Len(calls) : InitMenuLoaderRenders(i)
  \/ \E i \in 1..Len(calls) : InitMenuLoaderCatches(i)
  \/ ClockTick

SpecLoad == Init /\ [][NextLoad]_vars

(* The answers of the server the page as a whole is followed under. *)
PageResponses ==
  {Http(500, <<>>), Http(200, JSONstringify(CatalogCausa)),
   Http(200, JSONstringify(CatalogPostres))}

InitMenuPage ==
  /\ Init
  /\ storageMode = "ok"
  /\ storage \in {NoItem, Entry(CatalogCausa, StartTime - cacheExpiry)}

Next ==
  \/ InitMenuLoader
  \/ \E i \in 1..Len(calls), resp \in PageResponses : FetchSettles(i, resp)
  \/ \E i \in 1..Len(calls) : InitMenuLoaderRenders(i)
  \/ \E i \in 1..Len(calls) : InitMenuLoaderCatches(i)
  \/ InitFilters
  \/ \E c \in FilterInputs : ApplyFilter(c)
  \/ ResetFilters
  \/ \E i \in 1..Len(menuFilters) : HandleFilterClick(i)
  \/ \E i \in 1..Len(menuFilters), key \in {"Enter", " ", "a"} : HandleFilterKeypress(i, key)
  \/ ClockTick

Spec == InitMenuPage /\ [][Next]_vars

---------------------------------------------------------------------------
(* The menu page once its catalog is loaded and rendered: the view toggle, *)
(* the cards and the modal. *)

(* The page after initMenuLoader() has returned on the catalog c: the *)
(* filters and the cards are rendered, the loading panel is hidden. *)
InitLoaded(c) ==
  /\ MenuState = [data |-> c, activeCategory |-> "all", activeView |-> "detailed",
                  isLoading |-> FALSE, error |-> JNull]
  /\ DOM = page \cap Elements
  /\ calls = <<>>
  /\ loadingState = [hidden |-> TRUE]
  /\ errorState = [hidden |-> TRUE]
  /\ menuGrid = [renderDetailedView(DOM, [display |-> "", content |-> EmptyContent],
                                    c, "all").el EXCEPT !.display = "grid"]
  /\ menuSimple = [display |-> "", content |-> EmptyContent]
  /\ menuFilters = renderFilters(DOM, <<>>, c)
  /\ filtersListening = FALSE
  /\ scrolledTo = ""
  /\ filterAnnouncer = ""
  /\ storageMode = "ok"
  /\ storage = Entry(c, StartTime)
  /\ now = StartTime
  /\ last = NoCall
  /\ catalog = c

(* The pages the modal is followed on: the dialog holds both of its *)
(* focusable elements, one of them, or none. *)
ModalPages == {AllElements \ X : X \in SUBSET {"modalClose", "modalAction"}}

(* initMenuPage() has run: the modal, the loader, the filters and the *)
(* views are initialised, in this order. *)
InitReady(c) ==
  /\ InitLoaded(c)
  /\ ViewsDOM = page \cap (ViewElements \cup {"menuGrid", "menuSimple"})
  /\ toggleDetailed = updateViewButtons(ViewsDOM, "detailed").detailed
  /\ toggleSimple = updateViewButtons(ViewsDOM, "detailed").simple
  /\ gridClass = {}
  /\ simpleClass = {"hidden"}
  /\ viewAnnouncer = ""
  /\ ModalDOM = ModalDOMinit(page)
  /\ modalListening = TRUE
  /\ modalState = [isOpen |-> FALSE, lastFocusedElement |-> "null",
                   focusableElements |-> <<>>]
  /\ menuModal = [display |-> "none", ariaHidden |-> "true", opacity |-> "0"]
  /\ modalSlots = [image |-> "", alt |-> "", title |-> "", description |-> "",
                   price |-> ""]
  /\ bodyOverflow = ""
  /\ activeElement = "body"
  /\ staleFocus = FALSE
  /\ timers = <<>>
  /\ InitUtil

InitModalPage ==
  /\ page \in ModalPages
  /\ InitReady(CatalogCausa)

(* A callback of the modal that is due runs. *)
TimerFires ==
  \E i \in 1..Len(timers) :
    \/ ShowModal(i)
    \/ FocusCloseButton(i)
    \/ HideModal(i)

(* The modal alone: opened through Modal.open or a card, closed through *)
(* Modal.close, the close button, the overlay or Escape, with the Tab key *)
(* pressed at any moment. The clock is followed in steps of the shortest *)
(* delay. *)
NextModal ==
  \/ OpenMenuModal(Flan)
  \/ \E j \in 1..Len(menuGrid.content.nodes) : CardClick(j)
  \/ \E j \in 1..Len(menuGrid.content.nodes), key \in {"Enter", " ", "a"} :
       CardKeypress(j, key)
  \/ CloseMenuModal
  \/ CloseButtonClick
  \/ OverlayClick
  \/ EscapeKey
  \/ \E shiftKey \in BOOLEAN : TabKey(shiftKey)
  \/ ModalContentClick
  \/ \E i \in 1..Len(timers) : ShowModal(i)
  \/ \E i \in 1..Len(timers) : FocusCloseButton(i)
  \/ \E i \in 1..Len(timers) : HideModal(i)
  \/ Advance(focusDelay)

SpecModal == InitModalPage /\ [][NextModal]_vars

(* The modal with open() also called without a dish. *)
NextMarkers ==
  \/ NextModal
  \/ OpenWithoutDish

SpecMarkers == InitModalPage /\ [][NextMarkers]_vars

(* The page with every element. *)
InitCards ==
  /\ InitModalPage
  /\ page = AllElements

(* The event loop runs every callback that is due, and time passes. *)
SpecModalFair ==
  /\ InitCards
  /\ [][NextModal]_vars
  /\ WF_vars(TimerFires)
  /\ WF_vars(Advance(focusDelay))

(* The modal while the detailed view is switched to. *)
NextCards ==
  \/ NextModal
  \/ SwitchToDetailedView
  \/ \E i \in 1..Len(timers) : ShowDetailedView(i)

SpecCards == InitCards /\ [][NextCards]_vars

---------------------------------------------------------------------------
(* The view toggle on the loaded page, with the filters applied meanwhile *)

InitViewsPage ==
  /\ page = AllElements
  /\ \E c \in {CatalogCausa, CatalogPostres} : InitReady(c)

(* The categories the filter buttons of these catalogs carry. *)
ViewFilters == {"all", "entradas", "postres"}

NextViews ==
  \/ InitViews
  \/ SwitchToDetailedView
  \/ SwitchToSimpleView
  \/ \E i \in 1..Len(timers) : ShowDetailedView(i)
  \/ \E i \in 1..Len(timers) : ActivateSimpleView(i)
  \/ \E c \in ViewFilters : ApplyFilter(c)
  \/ Advance(focusDelay)

SpecViews == InitViewsPage /\ [][NextViews]_vars

---------------------------------------------------------------------------
(* Pages that lack elements: the public operations, in any order, on a *)
(* page from which up to MaxMissing elements are absent. *)

MaxMissing == 1

MissingPages ==
  {AllElements \ X :
     X \in {Y \in SUBSET AllElements : Cardinality(Y) \in 1..MaxMissing}}

(* Nothing has run yet; the storage holds the catalog of an earlier visit. *)
InitMissing ==
  /\ page \in MissingPages
  /\ InitScripts
  /\ InitUtil
  /\ errorState.hidden
  /\ storageMode = "ok"
  /\ storage = Entry(CatalogCausa, StartTime)
  /\ now = StartTime
  /\ last = NoCall
  /\ catalog = JUndef

(* initMenuPage() has run to its end on this page. *)
Initialised == ViewsDOM # {} /\ calls = <<>>

(* No delay is running. *)
Quiet == timers = <<>>

(* initMenuPage() initialises the modal, the loader, the filters and the *)
(* views in this order; the public operations are then called in any *)
(* order, each once the delays of the one before have elapsed, and close() *)
(* also while the modal opens. *)
NextMissing ==
  \/ ModalDOM = {} /\ InitModal
  \/ ModalDOM # {} /\ DOM = {} /\ InitMenuLoader
  \/ \E i \in 1..Len(calls) : InitMenuLoaderRenders(i)
  \/ DOM # {} /\ ViewsDOM = {} /\ InitFilters
  \/ DOM # {} /\ (filtersListening \/ "menuFilters" \notin page) /\ ViewsDOM = {}
       /\ InitViews
  \/ Initialised /\ Quiet /\ \E c \in {"postres", "constructor"} : ApplyFilter(c)
  \/ Initialised /\ Quiet /\ ResetFilters
  \/ Initialised /\ Quiet /\ GetActive
  \/ Initialised /\ Quiet /\ SwitchToDetailedView
  \/ Initialised /\ Quiet /\ SwitchToSimpleView
  \/ Initialised /\ Quiet /\ OpenMenuModal(Flan)
  \/ Initialised /\ (\A i \in 1..Len(timers) : timers[i].kind # "modalClose")
       /\ CloseMenuModal
  \/ \E i \in 1..Len(timers) : ShowDetailedView(i)
  \/ \E i \in 1..Len(timers) : ActivateSimpleView(i)
  \/ \E i \in 1..Len(timers) : ShowModal(i)
  \/ \E i \in 1..Len(timers) : FocusCloseButton(i)
  \/ \E i \in 1..Len(timers) : HideModal(i)
  \/ Advance(focusDelay)

SpecMissing == InitMissing /\ [][NextMissing]_vars

---------------------------------------------------------------------------
(* The menu page when the catalog cannot be loaded: initMenuPage() with a *)
(* fetch that fails, then the filters and the view toggle in any order. *)

(* Answers of the server that make loadMenuData throw. *)
FailingResponses == {Rejected, Http(500, <<>>), Http(200, <<Tok("null")>>)}

(* Nothing has run yet and the cache is empty. *)
InitFailing ==
  /\ page = AllElements
  /\ InitScripts
  /\ InitUtil
  /\ storageMode = "ok"
  /\ storage = NoItem
  /\ now = StartTime
  /\ last = NoCall
  /\ catalog = JUndef

(* initMenuPage() initialises the modal, the loader, the filters and the *)
(* views in this order; initMenuLoader catches the failure of the load. *)
NextFailing ==
  \/ ModalDOM = {} /\ InitModal
  \/ ModalDOM # {} /\ DOM = {} /\ InitMenuLoader
  \/ \E i \in 1..Len(calls), resp \in FailingResponses : FetchSettles(i, resp)
  \/ \E i \in 1..Len(calls) : InitMenuLoaderCatches(i)
  \/ DOM # {} /\ calls = <<>> /\ ViewsDOM = {} /\ InitFilters
  \/ filtersListening /\ ViewsDOM = {} /\ InitViews
  \/ Initialised /\ \E c \in {"postres", "bebidas"} : ApplyFilter(c)
  \/ Initialised /\ ResetFilters
  \/ Initialised /\ SwitchToDetailedView
  \/ Initialised /\ SwitchToSimpleView
  \/ \E i \in 1..Len(timers) : ShowDetailedView(i)
  \/ \E i \in 1..Len(timers) : ActivateSimpleView(i)
  \/ Advance(focusDelay)

SpecFailing == InitFailing /\ [][NextFailing]_vars

---------------------------------------------------------------------------
(* The whole page with the catalog loaded again and again: initMenuPage(), *)
(* then MenuLoader.init() called anew, one call after the other, under *)
(* answers that succeed and that fail, with the filter applied, the simple *)
(* view switched to and the modal opened and closed meanwhile. *)

(* The answers of the server the reloads are followed under. *)
ReloadResponses ==
  {Rejected, Http(200, <<Tok("null")>>), Http(200, JSONstringify(CatalogPostres))}

(* Nothing has run yet; the storage holds the catalog of an earlier *)
(* visit, which the first load adopts unless the storage is disabled. *)
InitReload ==
  /\ page = AllElements
  /\ InitScripts
  /\ errorState.hidden
  /\ InitUtil
  /\ storageMode \in {"ok", "disabled"}
  /\ storage = Entry(CatalogCausa, StartTime - cacheExpiry)
  /\ now = StartTime
  /\ last = NoCall
  /\ catalog = JUndef

(* initMenuPage() has run to its end. *)
PageReady == ViewsDOM # {}

(* No animation of the views or of the modal is under way. *)
Still == timers = <<>>

NextReload ==
  \/ ModalDOM = {} /\ InitModal
  \/ ModalDOM # {} /\ DOM = {} /\ InitMenuLoader
  \/ PageReady /\ Still /\ calls = <<>> /\ InitMenuLoader
  \/ \E i \in 1..Len(calls), resp \in ReloadResponses : FetchSettles(i, resp)
  \/ \E i \in 1..Len(calls) : InitMenuLoaderRenders(i)
  \/ \E i \in 1..Len(calls) : InitMenuLoaderCatches(i)
  \/ DOM # {} /\ calls = <<>> /\ ViewsDOM = {} /\ InitFilters
  \/ filtersListening /\ ViewsDOM = {} /\ InitViews
  \/ PageReady /\ Still /\ ApplyFilter("postres")
  \/ PageReady /\ Still /\ SwitchToSimpleView
  \/ PageReady /\ Still /\ OpenMenuModal(Flan)
  \/ PageReady /\ CloseMenuModal
  \/ \E i \in 1..Len(timers) : ActivateSimpleView(i)
  \/ \E i \in 1..Len(timers) : ShowModal(i)
  \/ \E i \in 1..Len(timers) : FocusCloseButton(i)
  \/ \E i \in 1..Len(timers) : HideModal(i)
  \/ Advance(focusDelay)
  \/ PageReady /\ Still /\ calls = <<>> /\ ClockTick

SpecReload == InitReload /\ [][NextReload]_vars

---------------------------------------------------------------------------
(* A debounced function on its own: called with any arguments at any *)
(* moment, for every wait up to MaxWait. *)

InitDebounce ==
  /\ page = Elements
  /\ InitScripts
  /\ errorState.hidden
  /\ storageMode = "ok" /\ storage = NoItem /\ now = StartTime
  /\ last = NoCall
  /\ catalog = JUndef
  /\ wait \in 1..MaxWait
  /\ debounceTimeout = NoTimeout
  /\ sinceCall = 0
  /\ funcCalls = [count |-> 0, args |-> 0]
  /\ InitThrottle(1)

NextDebounce ==
  \/ \E args \in {1, 2} : Debounced(args)
  \/ Later
  \/ DebounceTick

SpecDebounce == InitDebounce /\ [][NextDebounce]_vars

(* The event loop runs a timeout that is due, and time passes. *)
SpecDebounceFair ==
  /\ SpecDebounce
  /\ WF_vars(Later)
  /\ WF_vars(DebounceTick)

---------------------------------------------------------------------------
(* A throttled function on its own: called with any arguments at any *)
(* moment, around a function that may throw, for every limit up to *)
(* MaxLimit. *)

(* The limits, in ms, the throttled function is followed for. *)
MaxLimit == 3

InitThrottled ==
  /\ page = Elements
  /\ InitScripts
  /\ errorState.hidden
  /\ storageMode = "ok" /\ storage = NoItem /\ now = StartTime
  /\ last = NoCall
  /\ catalog = JUndef
  /\ wait = 1
  /\ debounceTimeout = NoTimeout
  /\ sinceCall = 0
  /\ funcCalls = [count |-> 0, args |-> 0]
  /\ \E l \in 1..MaxLimit : InitThrottle(l)

NextThrottle ==
  \/ \E args \in {1, 2}, throws \in BOOLEAN : Throttled(args, throws)
  \/ ThrottleReset
  \/ ThrottleTick

SpecThrottle == InitThrottled /\ [][NextThrottle]_vars

---------------------------------------------------------------------------
(* The renderers on their own: renderDetailedView and renderSimpleView on *)
(* any catalog and any category. *)

(* The categories a caller of renderDetailedView may pass: "all", the two *)
(* of the catalogs, one no catalog has, and a name every object inherits. *)
RenderInputs == {"all", "entradas", "postres", "bebidas", "constructor"}

InitRender ==
  /\ InitPage
  /\ errorState.hidden
  /\ storageMode = "ok" /\ storage = NoItem /\ now = StartTime
  /\ last = NoCall
  /\ catalog \in Catalogs

RenderDetailedViewCall(category) ==
  LET r == renderDetailedView(Elements, menuGrid, catalog, category) IN
  /\ DOM' = Elements
  /\ menuGrid' = r.el
  /\ last' = [NoCall EXCEPT !.op = "renderDetailedView", !.arg = JStr(category),
                            !.threw = r.threw]
  /\ CardsReplaced(TRUE)
  /\ UNCHANGED <<cacheVars, catalog, page, MenuState, calls, loadingState,
                 errorState, menuSimple, menuFilters, filtersListening,
                 scrolledTo, filterAnnouncer>>
  /\ UNCHANGED restVars

RenderSimpleViewCall(category) ==
  LET r == renderSimpleView(Elements, menuSimple, catalog, category) IN
  /\ DOM' = Elements
  /\ menuSimple' = r.el
  /\ last' = [NoCall EXCEPT !.op = "renderSimpleView", !.arg = JStr(category),
                            !.threw = r.threw]
  /\ UNCHANGED <<cacheVars, catalog, page, MenuState, calls, loadingState,
                 errorState, menuGrid, menuFilters, filtersListening,
                 scrolledTo, filterAnnouncer>>
  /\ UNCHANGED extVars

NextRender ==
  \/ \E category \in RenderInputs : RenderDetailedViewCall(category)
  \/ \E category \in RenderInputs : RenderSimpleViewCall(category)

SpecRender == InitRender /\ [][NextRender]_vars

---------------------------------------------------------------------------
(* Claims about the cache store, under SpecCache *)

(* The stored text is an entry {data: <catalog>, timestamp: <number>}. *)
IsEntry(st) ==
  /\ st.present
  /\ LET p == JSONparse(st.text) IN
       /\ p.ok
       /\ p.v.t = "obj"
       /\ Member(p.v, "timestamp").t = "num"
       /\ Member(p.v, "data").t = "obj"

EntryData(st) == Member(JSONparse(st.text).v, "data")

EntryAge(st, t) == t - Member(JSONparse(st.text).v, "timestamp").n

(* The stored text is present and JSON.parse rejects it. *)
Unparsable(st) == st.present /\ ~JSONparse(st.text).ok

(* C5, as stated: getFromCache() called right after saveToCache(c) returns *)
(* a catalog equal to c, for every well-formed catalog c. *)
CacheRoundTripAlways ==
  (last.op = "get" /\ last.prevSave) => last.ret = last.prevArg

(* C5, as amended: getFromCache() called right after saveToCache(c) returns *)
(* a catalog equal to c, for every well-formed catalog c, when the write to *)
(* storage succeeded (storage neither full nor disabled). *)
CacheRoundTrip ==
  (last.op = "get" /\ last.prevSave /\ storageMode = "ok")
    => last.ret = last.prevArg

CacheRoundTripWitness ==
  /\ last.op = "get" /\ last.prevSave /\ storageMode = "ok"
  /\ last.prevArg = CatalogCausa
  /\ last.ret = CatalogCausa

(* C6: getFromCache() on a stored entry older than 24 hours returns null *)
(* and leaves the key absent from storage; on an entry aged 24 hours or *)
(* less it returns the entry's catalog and leaves storage as it was. *)
CacheExpiryOnRead ==
  (last.op = "get" /\ IsEntry(last.before)) =>
    IF EntryAge(last.before, now) > cacheExpiry
    THEN last.ret = JNull /\ ~storage.present
    ELSE last.ret = EntryData(last.before) /\ storage = last.before

CacheExpiryOnReadWitness ==
  /\ last.op = "get" /\ IsEntry(last.before)
  /\ EntryAge(last.before, now) = cacheExpiry + 1
  /\ last.ret = JNull /\ ~storage.present

(* C7: getFromCache() on a stored text that is not empty and cannot be *)
(* parsed returns null and the key is absent from storage afterwards. *)
CacheUnparsableEvicted ==
  (last.op = "get" /\ Unparsable(last.before) /\ last.before.text # <<>>) =>
    last.ret = JNull /\ ~storage.present

(* What getFromCache() does with a stored text that cannot be parsed: it *)
(* returns null and leaves the text in storage as it was. *)
CacheUnparsableKept ==
  (last.op = "get" /\ Unparsable(last.before)) =>
    last.ret = JNull /\ storage = last.before

---------------------------------------------------------------------------
(* Claims about loadMenuData, under SpecLoad. A call whose pc is "returned" *)
(* or "threw" is a loadMenuData() that has just completed: its caller has *)
(* not run yet. *)

Completed(c) == c.pc \in {"returned", "threw"}

(* C1: when loadMenuData() returns from a cache hit, the state's data is *)
(* the catalog of the stored entry, which is the value returned, the *)
(* loading flag is false, and the call has issued no fetch. *)
CacheHitAdopts ==
  \A i \in 1..Len(calls) :
    (Completed(calls[i]) /\ calls[i].via = "cache") =>
      /\ calls[i].pc = "returned"
      /\ calls[i].ret = EntryData(storage)
      /\ MenuState.data = calls[i].ret
      /\ ~MenuState.isLoading
      /\ calls[i].fetches = 0

CacheHitAdoptsWitness ==
  \E i \in 1..Len(calls) :
    /\ calls[i].pc = "returned" /\ calls[i].via = "cache"
    /\ MenuState.data = CatalogCausa
    /\ Len(calls) = 2

(* C2: when loadMenuData() misses the cache and the response has a status *)
(* that is no success, it throws, the state's error is a non-empty *)
(* message, the loading flag is false, the error panel is shown and the *)
(* grid and the simple container are hidden. *)
HttpFailureShown ==
  \A i \in 1..Len(calls) :
    (Completed(calls[i]) /\ calls[i].via = "network"
       /\ calls[i].resp.kind = "http" /\ ~ResponseOk(calls[i].resp)) =>
      /\ calls[i].pc = "threw"
      /\ MenuState.error.t = "str" /\ MenuState.error.s # ""
      /\ ~MenuState.isLoading
      /\ ~errorState.hidden
      /\ menuGrid.display = "none"
      /\ menuSimple.display = "none"

HttpFailureShownWitness ==
  \E i \in 1..Len(calls) :
    /\ calls[i].pc = "threw" /\ calls[i].resp = Http(500, <<>>)
    /\ MenuState.error = JStr("HTTP error! status: 500")
    /\ ~errorState.hidden

(* The body of the response parses, and not to a mapping. *)
BodyIsNoMapping(resp) ==
  /\ resp.kind = "http" /\ ResponseOk(resp)
  /\ JSONparse(resp.body).ok
  /\ JSONparse(resp.body).v.t # "obj"

(* C3: when loadMenuData() misses the cache and the body is null, a scalar *)
(* or an array, it throws, the error message is recorded, and the value is *)
(* stored neither in the state's data nor in the cache. *)
NonMappingRejected ==
  [][\A i \in 1..Len(calls) :
       (i <= Len(calls') /\ calls[i].pc = "fetching" /\ Completed(calls'[i])
          /\ BodyIsNoMapping(calls'[i].resp)) =>
         /\ calls'[i].pc = "threw"
         /\ MenuState'.error.t = "str" /\ MenuState'.error.s # ""
         /\ MenuState'.data = MenuState.data
         /\ storage' = storage]_vars

(* C4, as stated: when loadMenuData() misses the cache and fetches a valid *)
(* catalog, on return the cache holds that catalog with the current *)
(* timestamp, the state's data is that catalog, the loading flag is false *)
(* and the error is null. *)
FetchedCatalogCachedAlways ==
  \A i \in 1..Len(calls) :
    (calls[i].pc = "returned" /\ calls[i].via = "network" /\ calls[i].ret.t = "obj") =>
      /\ storage = Entry(calls[i].ret, now)
      /\ MenuState.data = calls[i].ret
      /\ ~MenuState.isLoading
      /\ MenuState.error = JNull

(* C4, as amended: when loadMenuData() misses the cache and fetches a valid *)
(* catalog, it returns it, and on return the state's data is that catalog, *)
(* the loading flag is false and the error is null; the cache holds that *)
(* catalog with the current timestamp when the write to storage succeeded *)
(* (storage neither full nor disabled). *)
FetchedCatalogAdopted ==
  \A i \in 1..Len(calls) :
    (Completed(calls[i]) /\ calls[i].via = "network"
       /\ FetchOutcome(calls[i].resp).ok /\ FetchOutcome(calls[i].resp).data.t = "obj") =>
      /\ calls[i].pc = "returned"
      /\ calls[i].ret = FetchOutcome(calls[i].resp).data
      /\ MenuState.data = calls[i].ret
      /\ ~MenuState.isLoading
      /\ MenuState.error = JNull
      /\ storageMode = "ok" => storage = Entry(calls[i].ret, now)

FetchedCatalogAdoptedWitness ==
  \E i \in 1..Len(calls) :
    /\ calls[i].pc = "returned" /\ calls[i].via = "network"
    /\ calls[i].ret = CatalogPostres
    /\ storage = Entry(CatalogPostres, StartTime + cacheExpiry)

(* The i-th call is a loadMenuData() that returns in this step from a *)
(* fetch, with the write to storage failing. *)
ReturnsWithoutCache(i) ==
  /\ i <= Len(calls')
  /\ calls[i].pc = "fetching"
  /\ Completed(calls'[i])
  /\ FetchOutcome(calls'[i].resp).ok
  /\ FetchOutcome(calls'[i].resp).data.t = "obj"
  /\ storageMode # "ok"

(* C8: when the write to storage fails, a loadMenuData() whose fetch and *)
(* validation succeed still returns the fetched catalog with the *)
(* state's data set to it, the loading flag false, the error null and the *)
(* error panel not shown. *)
WriteFailureNoErrorPanel ==
  \A i \in 1..Len(calls) :
    (Completed(calls[i]) /\ calls[i].via = "network"
       /\ FetchOutcome(calls[i].resp).ok
       /\ FetchOutcome(calls[i].resp).data.t = "obj" /\ storageMode # "ok") =>
      /\ calls[i].pc = "returned"
      /\ MenuState.data = calls[i].ret
      /\ ~MenuState.isLoading
      /\ MenuState.error = JNull
      /\ errorState.hidden

(* What such a loadMenuData() does guarantee: it returns the fetched *)
(* catalog with the state's data set to it, the loading flag false and *)
(* the error null, and its return leaves the error panel and the storage *)
(* as they were. *)
WriteFailureHarmless ==
  [][\A i \in 1..Len(calls) :
       ReturnsWithoutCache(i) =>
         /\ calls'[i].pc = "returned"
         /\ calls'[i].ret = FetchOutcome(calls'[i].resp).data
         /\ MenuState'.data = calls'[i].ret
         /\ ~MenuState'.isLoading
         /\ MenuState'.error = JNull
         /\ errorState' = errorState
         /\ storage' = storage]_vars

---------------------------------------------------------------------------
(* Claims about renderDetailedView, under SpecRender *)

RECURSIVE DishesFrom(_, _)

(* The dishes of every category of the catalog from the i-th on. *)
DishesFrom(c, i) ==
  IF i > Len(c.e) THEN <<>>
  ELSE [j \in 1..Len(c.e[i].v.e) |-> c.e[i].v.e[j].v] \o DishesFrom(c, i + 1)

(* The dishes the claim expects for a category. *)
ExpectedDishes(c, category) ==
  IF category = "all" THEN DishesFrom(c, 1)
  ELSE IF HasOwn(c, category)
  THEN LET l == Get(c, category).e IN [j \in 1..Len(l) |-> l[j].v]
  ELSE <<>>

MountedDishes == [j \in 1..Len(menuGrid.content.nodes) |-> menuGrid.content.nodes[j].plato]

(* C9: renderDetailedView(catalog, category) raises nothing and mounts one *)
(* card per dish: with "all", the dishes of every category in catalog *)
(* order and then dish order; with a key of the catalog, the dishes of *)
(* that category in order; with any other category nothing but the *)
(* placeholder. *)
DetailedFiltering ==
  last.op = "renderDetailedView" =>
    /\ ~last.threw
    /\ MountedDishes = ExpectedDishes(catalog, last.arg.s)
    /\ (last.arg.s # "all" /\ ~HasOwn(catalog, last.arg.s)) => menuGrid.content.placeholder

---------------------------------------------------------------------------
(* Claims about applyFilter, under Spec *)

ActiveButtons == {i \in 1..Len(menuFilters) : menuFilters[i].active}

PressedButtons == {i \in 1..Len(menuFilters) : menuFilters[i].pressed = "true"}

ButtonsOf(category) == {i \in 1..Len(menuFilters) : menuFilters[i].category = category}

(* C10: after an applyFilter(category) that returns, the filter bar having *)
(* been rendered, exactly one filter button carries the active marker and *)
(* aria-pressed "true", and it is the button of the requested category. *)
OneActiveButton ==
  (last.op = "applyFilter" /\ ~last.threw /\ menuFilters # <<>>) =>
    /\ Cardinality(ActiveButtons) = 1
    /\ ActiveButtons = ButtonsOf(last.arg.s)
    /\ PressedButtons = ActiveButtons

(* What applyFilter(category) does guarantee: the filter buttons that *)
(* carry the active marker and aria-pressed "true" are exactly the buttons *)
(* of the requested category: one button when the filter bar has been *)
(* rendered and the category is "all" or a key of the rendered catalog, *)
(* and none otherwise. *)
ActiveButtonMatches ==
  last.op = "applyFilter" =>
    /\ ActiveButtons = ButtonsOf(last.arg.s)
    /\ PressedButtons = ActiveButtons
    /\ Cardinality(ActiveButtons) =
         IF menuFilters # <<>>
            /\ (last.arg.s = "all"
                \/ \E i \in 2..Len(menuFilters) : menuFilters[i].category = last.arg.s)
         THEN 1 ELSE 0

---------------------------------------------------------------------------
(* The modal *)

(* C11: after open(dish) and close(), when the close delay has elapsed, *)
(* the focus is on the very element that held it before open(dish): the *)
(* card the dish was opened from, still in the document. *)
FocusRestored ==
  [][\A i \in 1..Len(timers) :
       (HideModal(i) /\ modalState.isOpen /\ IsCard(modalState.lastFocusedElement))
         => (activeElement' = modalState.lastFocusedElement /\ ~staleFocus)]_vars

(* C12: while the dialog is open, the focus after any press of Tab or *)
(* Shift+Tab is on an element of the focusable set recorded by open(dish). *)
FocusContained ==
  [][\A shiftKey \in BOOLEAN :
       (TabKey(shiftKey) /\ modalState.isOpen /\ modalState.focusableElements # <<>>)
         => InSeq(activeElement', modalState.focusableElements)]_vars

(* Once the focus is inside the recorded set, Tab keeps it there. *)
FocusStaysInside ==
  [][\A shiftKey \in BOOLEAN :
       (TabKey(shiftKey) /\ modalState.isOpen
          /\ InSeq(activeElement, modalState.focusableElements))
         => InSeq(activeElement', modalState.focusableElements)]_vars

(* C13: while the modal is open, Shift+Tab on the first element of the *)
(* recorded set moves the focus to the last and Tab on the last moves it *)
(* to the first, whatever the size of the set; with an empty set the *)
(* handler raises nothing. *)
TabWraps ==
  [][\A shiftKey \in BOOLEAN :
       (TabKey(shiftKey) /\ modalState.isOpen) =>
         LET f == modalState.focusableElements IN
         /\ ~last'.threw
         /\ (f # <<>> /\ shiftKey /\ activeElement = f[1])
              => activeElement' = f[Len(f)]
         /\ (f # <<>> /\ ~shiftKey /\ activeElement = f[Len(f)])
              => activeElement' = f[1]]_vars

(* Shift+Tab has just been pressed on the first of two recorded elements, *)
(* and the focus is on the last. *)
TabWrapsWitness ==
  /\ modalState.isOpen
  /\ Len(modalState.focusableElements) = 2
  /\ last.op = "tab"
  /\ last.arg = JBool(TRUE)
  /\ last.ret = JStr(modalState.focusableElements[1])
  /\ activeElement = modalState.focusableElements[2]

(* The dialog is hidden, marked hidden, the page scrolls and the flag is *)
(* cleared. *)
ModalClosed ==
  /\ menuModal.display = "none"
  /\ menuModal.ariaHidden = "true"
  /\ bodyOverflow = ""
  /\ ~modalState.isOpen

(* close() has been triggered on an open modal and its delay is running. *)
ClosePending == \E i \in 1..Len(timers) : timers[i].kind = "modalClose"

(* C14: once close() is triggered on an open modal, by Modal.close, *)
(* Escape, the overlay or the close button, the dialog eventually is *)
(* hidden, marked hidden for assistive technology, the scroll of the page *)
(* is restored and the open flag is cleared, whether or not open(dish) is *)
(* called meanwhile; close() on a modal that is not open changes nothing. *)
CloseCompletes ==
  /\ [][((CloseMenuModal \/ CloseButtonClick \/ OverlayClick \/ EscapeKey)
           /\ ~modalState.isOpen)
          => UNCHANGED <<menuModal, modalState, modalSlots, bodyOverflow, timers>>]_vars
  /\ (ClosePending ~> ModalClosed)

(* A modal that was opened has been closed, and the delay has elapsed. *)
CloseCompletesWitness ==
  /\ last.op = "close"
  /\ modalSlots.title # ""
  /\ ~ClosePending
  /\ ModalClosed

---------------------------------------------------------------------------
(* The views *)

ViewDelayRunning == \E i \in 1..Len(timers) : timers[i].kind = "viewDetailed"

(* C15: after switchToDetailed has been invoked twice in a row the view *)
(* mode is detailed, and once both delays have elapsed the grid holds what *)
(* one render mounts: one card per dish of the active category, in order, *)
(* or the placeholder when there is none. *)
SwitchTwiceIdempotent ==
  (last.op = "switchToDetailed" /\ last.prevSave) =>
    /\ MenuState.activeView = "detailed"
    /\ ~ViewDelayRunning =>
         /\ MountedDishes = ExpectedDishes(MenuState.data, MenuState.activeCategory)
         /\ menuGrid.content.placeholder = (MountedDishes = <<>>)
         /\ menuGrid.display = "grid"

(* switchToDetailed was invoked twice in a row from the simple view, both *)
(* delays have elapsed and the grid shows the cards. *)
SwitchTwiceIdempotentWitness ==
  /\ last.op = "switchToDetailed"
  /\ last.prevSave
  /\ ~ViewDelayRunning
  /\ Len(menuGrid.content.nodes) > 1
  /\ menuSimple.content.nodes # <<>>
  /\ menuSimple.display = "none"

---------------------------------------------------------------------------
(* The placeholder *)

(* C16: both renderers show the placeholder exactly when the categories *)
(* selected hold no dish at all. *)
PlaceholderRule ==
  /\ last.op = "renderDetailedView" =>
       (menuGrid.content.placeholder <=> ExpectedDishes(catalog, last.arg.s) = <<>>)
  /\ last.op = "renderSimpleView" =>
       (menuSimple.content.placeholder <=> ExpectedDishes(catalog, last.arg.s) = <<>>)

(* The rule holds for every category but the names a catalog inherits. *)
PlaceholderRuleOwn ==
  last.arg.s \notin ObjectPrototypeKeys => PlaceholderRule

---------------------------------------------------------------------------
(* The filter bar *)

(* C17: whenever the filter bar is rendered, every button is marked *)
(* active, and pressed, exactly when its category is the active category *)
(* of MenuState, here a category of the catalog rendered. *)
FilterBarReflectsState ==
  [][\A i \in 1..Len(calls) :
       (InitMenuLoaderRenders(i) /\ "menuFilters" \in DOM
          /\ HasOwn(calls[i].ret, MenuState.activeCategory)) =>
         \A k \in 1..Len(menuFilters') :
           /\ menuFilters'[k].active
                <=> menuFilters'[k].category = MenuState'.activeCategory
           /\ menuFilters'[k].pressed = "true"
                <=> menuFilters'[k].category = MenuState'.activeCategory]_vars

(* The bar as rendered is right while the active category is "all". *)
FilterBarReflectsAll ==
  [][\A i \in 1..Len(calls) :
       (InitMenuLoaderRenders(i) /\ "menuFilters" \in DOM
          /\ MenuState.activeCategory = "all") =>
         \A k \in 1..Len(menuFilters') :
           /\ menuFilters'[k].active <=> menuFilters'[k].category = "all"
           /\ menuFilters'[k].pressed = "true" <=> menuFilters'[k].category = "all"]_vars

---------------------------------------------------------------------------
(* Fetches *)

(* C18: an invocation of the loader issues at most one fetch, and a fetch *)
(* is issued only by the step that starts an invocation: none follows a *)
(* failed load until the loader is invoked again. *)
OneFetchPerLoad ==
  [][/\ \A i \in 1..Len(calls') : calls'[i].fetches <= 1
     /\ Len(calls') = Len(calls) =>
          \A i \in 1..Len(calls) : calls'[i].fetches = calls[i].fetches
     /\ Len(calls') > Len(calls) =>
          /\ InitMenuLoader
          /\ \A i \in 1..Len(calls) : calls'[i].fetches = calls[i].fetches]_vars

(* A load has failed after its one fetch, and no other is under way. *)
OneFetchPerLoadWitness ==
  /\ Len(calls) = 1
  /\ calls[1].pc = "threw"
  /\ calls[1].fetches = 1
  /\ ~Falsy(MenuState.error)

---------------------------------------------------------------------------
(* Missing elements *)

(* C19: on a page that lacks required elements no public operation *)
(* raises. *)
NothingRaises == page # AllElements => ~last.threw

(* Nothing raises but a render of a category name that the catalog *)
(* inherits. *)
NothingRaisesOwn ==
  (page # AllElements /\ MenuState.activeCategory \notin ObjectPrototypeKeys)
    => ~last.threw

(* The feature whose element is missing does nothing: the element's state *)
(* stays as the markup has it, and no callback is registered for it. *)
MissingFeatureIdle ==
  /\ "menuModal" \notin page =>
       /\ menuModal = [display |-> "none", ariaHidden |-> "true", opacity |-> "0"]
       /\ ~modalState.isOpen
       /\ bodyOverflow = ""
       /\ ~modalListening
       /\ \A i \in 1..Len(timers) :
            timers[i].kind \notin {"modalOpacity", "modalFocus", "modalClose"}
  /\ "menuGrid" \notin page =>
       /\ menuGrid = [display |-> "", content |-> EmptyContent]
       /\ \A i \in 1..Len(timers) :
            timers[i].kind \notin {"viewDetailed", "simpleActive"}
       /\ MenuState.activeView = "detailed"
  /\ "menuSimple" \notin page =>
       /\ menuSimple = [display |-> "", content |-> EmptyContent]
       /\ MenuState.activeView = "detailed"
  /\ "menuFilters" \notin page => menuFilters = <<>> /\ ~filtersListening
  /\ "loadingState" \notin page => loadingState = [hidden |-> FALSE]
  /\ "errorState" \notin page => errorState = [hidden |-> TRUE]
  /\ ~({"toggleDetailed", "toggleSimple"} \subseteq page) =>
       /\ toggleDetailed = [active |-> TRUE, pressed |-> "true"]
       /\ toggleSimple = [active |-> FALSE, pressed |-> "false"]

---------------------------------------------------------------------------
(* debounce *)

(* C20: the wrapped function is invoked only when wait ms have passed *)
(* since the last call of the debounced function, once for the calls made *)
(* since its last invocation and with the arguments of the last of them; *)
(* and a call that no other follows does lead to the invocation. *)
DebounceOnce ==
  /\ [][funcCalls' # funcCalls =>
          /\ last.op = "debounced"
          /\ sinceCall = wait
          /\ funcCalls'.count = funcCalls.count + 1
          /\ funcCalls'.args = last.arg.n]_vars
  /\ ((debounceTimeout.pending /\ sinceCall > 0)
        ~> (~debounceTimeout.pending \/ sinceCall = 0))

(* Two calls with different arguments were made less than wait ms apart, *)
(* and the wrapped function has been invoked with the arguments of the *)
(* second, wait ms after it. *)
DebounceOnceWitness ==
  /\ last.op = "func"
  /\ last.prevSave
  /\ last.prevArg # last.arg
  /\ funcCalls = [count |-> 1, args |-> last.arg.n]
  /\ sinceCall = wait
  /\ wait > 1


---------------------------------------------------------------------------
(* throttle *)

(* C21: the first call of a throttled function invokes the wrapped *)
(* function, and a call that invokes it after an earlier invocation comes *)
(* at least limit ms after that invocation. *)
ThrottleSpacing ==
  last.op = "throttled" =>
    /\ ~last.prevSave => last.ret = JBool(TRUE)
    /\ (last.ret = JBool(TRUE) /\ last.prevSave) => last.prevArg.n >= limit

(* After an invocation that returned, the next one comes at least limit ms *)
(* later. *)
ThrottleSpacingReturning ==
  [][(invocations'.count > invocations.count /\ invocations.count > 0
        /\ ~invocations.threw) => sinceInvoked >= limit]_vars

(* The wrapped function runs only inside a call of the throttled function, *)
(* with that call's arguments: a call that was dropped is never run later. *)
ThrottleDropsForGood ==
  [][invocations' # invocations =>
       /\ last'.op = "throttled"
       /\ last'.ret = JBool(TRUE)
       /\ invocations'.args = last'.arg.n]_vars

---------------------------------------------------------------------------
(* Prices *)

(* formatPrice(amount) of utils.js: 'S/ ' and parseFloat(amount).toFixed(2), *)
(* for the whole numbers and the decimal strings of the model's dishes. *)
formatPrice(amount) ==
  CASE amount.t = "num" -> "S/ " \o ToString(amount.n) \o ".00"
    [] amount = JStr("8.50") -> "S/ 8.50"
    [] OTHER -> "S/ NaN"

(* The dishes of the model with this name. *)
DishesNamed(title) ==
  {d \in DishPool : TemplateString(Member(d, "nombre")) = title}

(* C22: every price shown for a dish, on a card, in the simple list and in *)
(* the modal, is the dish's price with exactly two fraction digits. *)
PricesTwoDigits ==
  /\ \A j \in 1..Len(menuGrid.content.nodes) :
       LET card == menuGrid.content.nodes[j] IN
       card.price = formatPrice(Member(card.plato, "precio"))
  /\ \A i \in 1..Len(menuSimple.content.nodes) :
       \A k \in 1..Len(menuSimple.content.nodes[i].items) :
         LET item == menuSimple.content.nodes[i].items[k] IN
         \A d \in DishesNamed(item.title) :
           item.price = formatPrice(Member(d, "precio"))
  /\ modalSlots.price # "" =>
       \A d \in DishesNamed(modalSlots.title) :
         modalSlots.price = formatPrice(Member(d, "precio"))

(* A price given as a string with two fraction digits is shown as it is. *)
PricesAsGiven ==
  /\ \A j \in 1..Len(menuGrid.content.nodes) :
       LET card == menuGrid.content.nodes[j] IN
       card.price = "S/ " \o TemplateString(Member(card.plato, "precio"))
  /\ modalSlots.price # "" =>
       \A d \in DishesNamed(modalSlots.title) :
         modalSlots.price = "S/ " \o TemplateString(Member(d, "precio"))

---------------------------------------------------------------------------
(* The view shown and the view of the state *)

GridShown == menuGrid.display # "none" /\ "hidden" \notin gridClass

SimpleShown == menuSimple.display # "none" /\ "hidden" \notin simpleClass

ViewTimerPending ==
  \E i \in 1..Len(timers) : timers[i].kind \in {"viewDetailed", "simpleActive"}

(* C23: once no view-transition timer is pending, the detailed grid is *)
(* shown iff the state's view is detailed and the simple container is shown *)
(* iff it is simple. *)
ViewMatchesState ==
  ~ViewTimerPending =>
    /\ GridShown <=> MenuState.activeView = "detailed"
    /\ SimpleShown <=> MenuState.activeView = "simple"

(* Exactly one of the two containers is shown once the timers have run. *)
OneViewShown == ~ViewTimerPending => (GridShown <=> ~SimpleShown)

---------------------------------------------------------------------------
(* An open after a close *)

(* C24: while no handler has run since open(dish) returned, in particular *)
(* no close(), the dialog is displayed and the open flag is set, whatever *)
(* callbacks of earlier calls have run meanwhile. *)
OpenStaysOpen ==
  (last.op = "open" /\ ~last.threw /\ "menuModal" \in ModalDOM) =>
    /\ modalState.isOpen
    /\ menuModal.display = "flex"
    /\ menuModal.ariaHidden = "false"


---------------------------------------------------------------------------
(* Loads that overlap *)

(* Two invocations that missed the cache were waiting for their fetch at *)
(* once; one of them has ended, and the loadMenuData of the other has just *)
(* returned or thrown. *)
BothDone ==
  /\ last.op = "init"
  /\ last.prevSave
  /\ last.arg.n > 0
  /\ Len(calls) = 1
  /\ calls[1].pc \in {"returned", "threw"}

(* C25 as stated: each of the two loads has fetched once, and the data, *)
(* the loading flag and the error of the state are the ones the load that *)
(* completed last has written. A load that throws writes no data. *)
LastLoadWritesAll ==
  BothDone =>
    /\ last.arg.n + calls[1].fetches = 2
    /\ ~MenuState.isLoading
    /\ calls[1].pc = "returned"
    /\ MenuState.data = calls[1].ret
    /\ MenuState.error = JNull

(* C25: each of the two loads has fetched once; the loading flag and the *)
(* error are those of the load that completed last; the data is its data *)
(* when it returned, and when it threw the data is left as it was: that *)
(* of the other load when that one returned. *)
LastLoadWins ==
  BothDone =>
    /\ last.arg.n = 1 /\ calls[1].fetches = 1
    /\ ~MenuState.isLoading
    /\ calls[1].pc = "returned" =>
         MenuState.data = calls[1].ret /\ MenuState.error = JNull
    /\ calls[1].pc = "threw" =>
         /\ MenuState.error = JStr(FetchOutcome(calls[1].resp).message)
         /\ last.ret # JUndef => MenuState.data = last.ret

(* Two loads overlapped; the first to complete returned the catalog, the *)
(* second failed on a 500, and the state holds the catalog and the error. *)
LastLoadWinsWitness ==
  /\ BothDone
  /\ calls[1].pc = "threw"
  /\ calls[1].resp = Http(500, <<>>)
  /\ last.ret = CatalogCausa
  /\ MenuState.data = CatalogCausa
  /\ MenuState.error = JStr("HTTP error! status: 500")

---------------------------------------------------------------------------
(* The loading flag *)

FetchOutstanding == \E i \in 1..Len(calls) : calls[i].pc = "fetching"

(* C26: the loading flag is set in every state in which the fetch of some *)
(* load is outstanding. *)
LoadingWhileFetching == FetchOutstanding => MenuState.isLoading


---------------------------------------------------------------------------
(* The error after a load that returned *)

(* C27: when loadMenuData has returned, from the cache or from the *)
(* network, the error of the state is null and the loading flag is unset. *)
ReturnedLoadIsClean ==
  \A i \in 1..Len(calls) :
    calls[i].pc = "returned" => MenuState.error = JNull /\ ~MenuState.isLoading

(* A load that returned from the network leaves no error, and one that *)
(* returned from the cache leaves the loading flag unset. *)
ReturnedLoadIsCleanPartly ==
  \A i \in 1..Len(calls) :
    calls[i].pc = "returned" =>
      /\ ~MenuState.isLoading
      /\ calls[i].via = "network" => MenuState.error = JNull

---------------------------------------------------------------------------
(* The error panel *)

(* C28: after a failed load, whenever the error panel is shown neither *)
(* the detailed grid nor the simple container is. *)
ErrorPanelAlone ==
  (MenuState.error # JNull /\ ~errorState.hidden) => ~GridShown /\ ~SimpleShown

(* The filters leave the two containers hidden after a failed load: only *)
(* the view toggle shows one of them. *)
ErrorPanelAloneUntilToggled ==
  (MenuState.error # JNull /\ ~errorState.hidden /\ viewAnnouncer = "")
    => ~GridShown /\ ~SimpleShown

---------------------------------------------------------------------------
(* getActive() and the state *)

(* C29: with no load under way, getActive() returns the active category *)
(* of the state. *)
GetActiveAgrees ==
  calls = <<>> => getActiveCategory(menuFilters) = MenuState.activeCategory

(* Right after an applyFilter(category) for which the bar has a button, *)
(* getActive() returns the category of the state. *)
GetActiveAgreesOnButton ==
  (last.op = "applyFilter" /\ ButtonsOf(last.arg.s) # {}) =>
    getActiveCategory(menuFilters) = MenuState.activeCategory

---------------------------------------------------------------------------
(* A filter applied while the detailed view is switched to *)

(* C30: when the callback of switchToDetailed runs and the last handler *)
(* before it was an applyFilter(c), made while the delay was running, the *)
(* grid it shows is the render of the catalog for c. *)
DelayedRenderUsesCurrent ==
  [][\A i \in 1..Len(timers) :
       (ShowDetailedView(i) /\ last.op = "applyFilter" /\ ~Falsy(MenuState.data)) =>
         /\ menuGrid'.display = "grid"
         /\ menuGrid'.content =
              renderDetailedView(DOM, menuGrid, MenuState.data, last.arg.s).el.content]_vars

(* From the simple view, switchToDetailed() was called and then *)
(* applyFilter("postres") while the grid was still hidden (it scrolled to *)
(* the simple container); the delay has elapsed and the grid shows the *)
(* postres of a catalog that has other dishes too. *)
DelayedRenderUsesCurrentWitness ==
  /\ last.op = "applyFilter"
  /\ last.arg = JStr("postres")
  /\ scrolledTo = "menuSimple"
  /\ ~ViewTimerPending
  /\ MenuState.activeView = "detailed"
  /\ MenuState.data = CatalogPostres
  /\ GridShown
  /\ menuGrid.content =
       renderDetailedView(DOM, menuGrid, CatalogPostres, "postres").el.content
  /\ Len(menuGrid.content.nodes) = 2

---------------------------------------------------------------------------
(* The four markers of the modal *)

(* C31: the open flag is set iff the dialog is displayed iff it is marked *)
(* non-hidden for assistive technology iff the scroll of the page is *)
(* suppressed. *)
MarkersAgree ==
  /\ modalState.isOpen <=> menuModal.display # "none"
  /\ modalState.isOpen <=> menuModal.ariaHidden = "false"
  /\ modalState.isOpen <=> bodyOverflow = "hidden"

(* open(dish) was called while a close() was pending, and the callback of *)
(* the close has run since: the four markers all say closed. *)
MarkersAgreeWitness ==
  /\ last.op = "open"
  /\ ~last.threw
  /\ modalSlots.title = "Flan"
  /\ ~ClosePending
  /\ ~modalState.isOpen
  /\ menuModal.display = "none"
  /\ menuModal.ariaHidden = "true"
  /\ bodyOverflow = ""

---------------------------------------------------------------------------
(* The catalog of the shared state *)

(* The i-th invocation has, in this step, ended a loadMenuData() that *)
(* returned the data the state now holds. *)
LoadReturnsNow(i) ==
  /\ calls'[i].pc = "returned"
  /\ calls'[i].ret = MenuState'.data
  /\ (i > Len(calls) \/ calls[i].pc = "fetching")

(* C32: once MenuState.data holds a catalog, no step of a load, successful *)
(* or failed, of applyFilter, of the view toggle or of the modal makes it *)
(* null again, and the only steps that change it are those in which a *)
(* loadMenuData() returns, which makes its result the data. *)
DataKeptUntilReload ==
  [][MenuState.data # JNull =>
       /\ MenuState'.data # JNull
       /\ MenuState'.data # JUndef
       /\ (MenuState'.data # MenuState.data =>
             \E i \in 1..Len(calls') : LoadReturnsNow(i))]_vars

(* The catalog fetched by a load is still the data after a later load has *)
(* failed, with the filter applied and the modal open. *)
DataKeptUntilReloadWitness ==
  /\ MenuState.data = CatalogPostres
  /\ MenuState.error # JNull
  /\ errorState.hidden = FALSE
  /\ modalState.isOpen
  /\ MenuState.activeCategory = "postres"
====
